---- MODULE Spec2Model ----
(***************************************************************************)
(* k8s-rdiff: the snapshot data model (internal/snapshot), the diff        *)
(* classification engine (internal/diff, Compare) and the interactive      *)
(* presentation state machine (internal/tui, Model.Update).                *)
(*                                                                         *)
(* The specifications of the module:                                       *)
(*   SpecCompare  applies Compare to every pair of bounded snapshots;      *)
(*   Spec         is the bubbletea event loop of the TUI: key presses,     *)
(*                background commands and the messages they post back;     *)
(*   SpecTimers   is Spec with the timer messages eventually delivered;    *)
(*   SpecCaptures is Spec with the capture completions eventually          *)
(*                delivered;                                               *)
(*   SpecFile     saves a snapshot to a file and loads it again;           *)
(*   SpecFilter   builds, compiles and asks a filter.ResourceFilter;       *)
(*   SpecCapture  follows one CaptureSnapshot call by call, up to the      *)
(*                completion message Update receives;                      *)
(*   SpecDialog   is the line dialog ui.Dialog.WaitForUserAction.          *)
(***************************************************************************)
EXTENDS Integers, Sequences, FiniteSets, Bags, TLC

VARIABLES
    \* ---- tui.Model (src/internal/tui/app.go:157-181) ----
    state,            \* m.state
    baseline,         \* m.baseline   (*snapshot.Snapshot, Nil when nil)
    current,          \* m.current    (*snapshot.Snapshot, Nil when nil)
    diffResult,       \* m.diffResult (*diff.DiffResult, Nil when nil)
    diffOutput,       \* m.diffOutput (rendered structured text)
    outputFormat,     \* m.outputFormat
    resourceFilter,   \* m.resourceFilter
    selectedResource, \* m.selectedResource (*diff.ResourceDiff, Nil when nil)
    error,            \* m.error (Nil when nil)
    tableRows,        \* rows held by m.table
    tableCursor,      \* cursor of m.table (index of the highlighted row, from 0)
    viewportContent,  \* content of m.viewport
    statusMessage,    \* m.statusMessage
    \* ---- the bubbletea runtime around the model ----
    pending,          \* bag of the messages of the dispatched commands that
                      \* Update has not received yet (commands run concurrently,
                      \* so their messages arrive in any order)
    running,          \* FALSE once Update has returned tea.Quit
    captures,         \* capture commands dispatched in this session
    viewKeys,         \* view inputs (toggle, filter, open, scroll, resize) that
                      \* took effect in this session
    \* ---- one call of diff.Compare on arbitrary inputs ----
    cmpPc,            \* "start" before the call, "done" after it
    cmpBaseline,      \* the snapshot the baseline argument points to
    cmpCurrent,       \* the snapshot the current argument points to
    cmpResult,        \* the returned *DiffResult (Nil before the call)
    \* ---- one Snapshot.SaveToFile followed by LoadFromFile ----
    fileSnapshot,     \* the snapshot s that SaveToFile is called on
    tempDir,          \* os.TempDir(): file name -> file content
    saveErr,          \* what SaveToFile returned (Nil before the call and on success)
    loaded,           \* what LoadFromFile returned (Nil before the call)
    \* ---- one filter.ResourceFilter: built, compiled, asked ----
    rf,               \* the *ResourceFilter and whether Compile succeeded on it
                      \* (Nil before NewResourceFilter)
    compileErr,       \* what rf.Compile() returned (Nil before the call and on success)
    excluded,         \* the last rf.ShouldExclude call: its label and outcome
    \* ---- one run of snapshot.CaptureSnapshot in a capture command ----
    startFlags,       \* the flags of the start command (Nil when none is modelled)
    capPc,            \* the call CaptureSnapshot makes next ("idle": not running)
    capIgnore,        \* its argument ignoreKindRegex (m.ignorePattern)
    capSnapshot,      \* the snapshot it is filling (Nil before it is created)
    capTypes,         \* the resource types it has still to list
    capCalls,         \* the client calls it has made, with what they returned
    capResult,        \* what it returned (Nil while it runs)
    \* ---- ui.Dialog.WaitForUserAction (src/unnamed/part_001:22-44) ----
    dlgPc,            \* "idle", "reading" (inside the for loop) or "returned"
    dlgLines,         \* what d.reader.ReadString returned so far, in order
    dlgResult,        \* the error it returned (Nil while it waits)
    dlgHints          \* how often it printed the "Type 'continue' ..." hint

tuiVars == <<state, baseline, current, diffResult, diffOutput, outputFormat,
             resourceFilter, selectedResource, error, tableRows, tableCursor,
             viewportContent, statusMessage, pending, running, captures, viewKeys>>
cmpVars == <<cmpPc, cmpBaseline, cmpCurrent, cmpResult>>
fileVars == <<fileSnapshot, tempDir, saveErr, loaded>>
filterVars == <<rf, compileErr, excluded>>
captureVars == <<startFlags, capPc, capIgnore, capSnapshot, capTypes, capCalls, capResult>>
dialogVars == <<dlgPc, dlgLines, dlgResult, dlgHints>>
libVars == <<fileVars, filterVars, captureVars, dialogVars>>
vars == <<state, baseline, current, diffResult, diffOutput, outputFormat,
          resourceFilter, selectedResource, error, tableRows, tableCursor,
          viewportContent, statusMessage, pending, running, captures, viewKeys,
          cmpPc, cmpBaseline, cmpCurrent, cmpResult,
          fileSnapshot, tempDir, saveErr, loaded,
          rf, compileErr, excluded,
          startFlags, capPc, capIgnore, capSnapshot, capTypes, capCalls, capResult,
          dlgPc, dlgLines, dlgResult, dlgHints>>

(***************************************************************************)
(* Bounds of the model.                                                    *)
(***************************************************************************)
\* resource identities a snapshot handed to Compare may hold
MaxKeys == 2
\* cluster contents a capture of the TUI may find (a prefix of ClusterStateList)
MaxClusterStates == 2
\* lines the dialog reads in one wait
MaxLines == 4
\* render / timer messages outstanding at once
MaxPending == 2
\* captures one session of the TUI dispatches (baseline, current, one continue)
MaxCaptures == 3
\* view inputs (format toggle, filter, open, scroll, resize) that take effect
\* in one session of the TUI
MaxViewKeys == 2

\* A nil pointer / nil error.
Nil == [nil |-> TRUE]

\* A rendered string (diffOutput, viewport content).
Text(s) == [ kind |-> "text", text |-> s ]

(***************************************************************************)
(* snapshot.ResourceInfo and snapshot.Snapshot                             *)
(***************************************************************************)
\* The identities (groupVersionKind, namespace, name) of the modelled cluster.
IdentityList ==
    << [gvk |-> "apps/v1/Deployment", ns |-> "myapp", name |-> "x"],
       [gvk |-> "v1/ConfigMap",       ns |-> "myapp", name |-> "cfg"],
       [gvk |-> "v1/Namespace",       ns |-> "",      name |-> "myapp"],
       [gvk |-> "v1/Secret",          ns |-> "myapp", name |-> "tls"] >>

Min(a, b) == IF a < b THEN a ELSE b

Identities(n) == { IdentityList[i] : i \in 1..Min(n, Len(IdentityList)) }

\* key := fmt.Sprintf("%s|%s|%s", gvk, namespace, name)
ResourceKey(gvk, ns, name) == gvk \o "|" \o ns \o "|" \o name

\* The canonical manifest of a resource: the YAML of the whole object, which
\* holds its identity, its version token and its spec payload.
ManifestText(id, rv, spec) ==
    "kind: " \o id.gvk \o "\nname: " \o id.name \o "\nnamespace: " \o id.ns
        \o "\nresourceVersion: " \o rv \o "\nspec: " \o spec \o "\n"

ResourceInfo(id, rv, hash) ==
    [ GroupVersionKind  |-> id.gvk,
      Namespace         |-> id.ns,
      Name              |-> id.name,
      UID               |-> "uid-" \o id.name,
      ResourceVersion   |-> rv,
      CreationTimestamp |-> "2024-01-01T00:00:00Z",
      SpecHash          |-> hash,
      Manifest          |-> ManifestText(id, rv, hash) ]

\* Compare reads resourceVersion and specHash only through = and #, so two
\* tokens of each give every case of the comparison.
VersionTokens == { "1", "2" }
SpecHashes == { "h1", "h2" }

KeyOfIdentity(id) == ResourceKey(id.gvk, id.ns, id.name)

\* Every Resources map over a subset of n identities: each stored under the
\* key built from its own fields.
ResourceMaps(nKeys) ==
    UNION { { [ k \in { KeyOfIdentity(id) : id \in ids } |->
                  LET id == CHOOSE i \in ids : KeyOfIdentity(i) = k
                  IN  ResourceInfo(id, pick[id].rv, pick[id].hash) ]
              : pick \in [ ids -> [ rv : VersionTokens, hash : SpecHashes ] ] }
            : ids \in SUBSET Identities(nKeys) }

\* Timestamp: time.Now().UTC() of the capture. Nothing compares or orders
\* timestamps, so one instant stands for them.
CaptureTime == "2024-06-01T12:00:00Z"

Snapshot(ts, ns, resources) ==
    [ Timestamp |-> ts, Namespace |-> ns, Resources |-> resources ]

Keys(snapshot) == DOMAIN snapshot.Resources

(***************************************************************************)
(* diff.ResourceDiff, diff.DiffResult, diff.Compare                        *)
(***************************************************************************)
Added == "Added"
Removed == "Removed"
Modified == "Modified"

\* ResourceDiff{Type: Added, Resource: res, CurrentResource: &resCopy}
AddedEntry(res, resCopy) ==
    [ Type               |-> Added,
      Resource           |-> res,
      OldResourceVersion |-> "",
      NewResourceVersion |-> "",
      OldSpecHash        |-> "",
      NewSpecHash        |-> "",
      BaselineResource   |-> Nil,
      CurrentResource    |-> resCopy ]

\* Mutant of ModifiedEntry: the old and new version/hash fields are swapped.
ModifiedEntrySwapped(res, baseRes, baseResCopy, resCopy) ==
    [ Type               |-> "Modified",
      Resource           |-> res,
      OldResourceVersion |-> res.ResourceVersion,
      NewResourceVersion |-> baseRes.ResourceVersion,
      OldSpecHash        |-> res.SpecHash,
      NewSpecHash        |-> baseRes.SpecHash,
      BaselineResource   |-> baseResCopy,
      CurrentResource    |-> resCopy ]

\* ResourceDiff{Type: Modified, Resource: res, Old.../New..., both pointers}
ModifiedEntry(res, baseRes, baseResCopy, resCopy) ==
    [ Type               |-> Modified,
      Resource           |-> res,
      OldResourceVersion |-> baseRes.ResourceVersion,
      NewResourceVersion |-> res.ResourceVersion,
      OldSpecHash        |-> baseRes.SpecHash,
      NewSpecHash        |-> res.SpecHash,
      BaselineResource   |-> baseResCopy,
      CurrentResource    |-> resCopy ]

\* ResourceDiff{Type: Removed, Resource: res, BaselineResource: &resCopy}
RemovedEntry(res, resCopy) ==
    [ Type               |-> Removed,
      Resource           |-> res,
      OldResourceVersion |-> "",
      NewResourceVersion |-> "",
      OldSpecHash        |-> "",
      NewSpecHash        |-> "",
      BaselineResource   |-> resCopy,
      CurrentResource    |-> Nil ]

EmptyDiffResult == [ Added |-> <<>>, Removed |-> <<>>, Modified |-> <<>> ]

\* func (d *DiffResult) IsEmpty() bool
IsEmpty(d) == Len(d.Added) = 0 /\ Len(d.Removed) = 0 /\ Len(d.Modified) = 0

\* func (r *ResourceDiff) IsPresentInBaseline() bool
IsPresentInBaseline(r) == r.Type = Modified \/ r.Type = Removed

\* func (r *ResourceDiff) IsPresentInCurrent() bool
IsPresentInCurrent(r) == r.Type = Modified \/ r.Type = Added

\* Go ranges over a map in an unspecified order: an iteration order of a map
\* is any sequence that enumerates its keys once each.
Orders(S) ==
    { s \in [ 1..Cardinality(S) -> S ] :
        \A i, j \in 1..Cardinality(S) : i # j => s[i] # s[j] }

\* Mutant of IsModified: both tokens must differ (&& for ||).
IsModifiedBothDiffer(res, baseRes) ==
    res.ResourceVersion # baseRes.ResourceVersion /\ res.SpecHash # baseRes.SpecHash

\* Mutant of IsModified: the hash comparison is inverted (== for !=).
IsModifiedHashEqual(res, baseRes) ==
    res.ResourceVersion # baseRes.ResourceVersion \/ res.SpecHash = baseRes.SpecHash

\* else-if condition of the first loop: the resource counts as modified
IsModified(res, baseRes) ==
    res.ResourceVersion # baseRes.ResourceVersion \/ res.SpecHash # baseRes.SpecHash

\* One iteration of `for key, res := range current.Resources`
\* (resCopy := res and baseResCopy := baseRes are fresh copies of the records).
CurrentStep(result, base, cur, key) ==
    LET res == cur.Resources[key] IN
    IF key \notin Keys(base)
    THEN [ result EXCEPT !.Added = Append(@, AddedEntry(res, res)) ]
    ELSE LET baseRes == base.Resources[key] IN
         IF IsModified(res, baseRes)
         THEN [ result EXCEPT !.Modified =
                    Append(@, ModifiedEntry(res, baseRes, baseRes, res)) ]
         ELSE result

\* Mutant of BaselineStep: the `!exists` test is dropped.
BaselineStepNoExistsCheck(result, base, cur, key) ==
    [ result EXCEPT !.Removed =
          Append(@, RemovedEntry(base.Resources[key], base.Resources[key])) ]

\* Mutant of BaselineStep: the lookup goes to the wrong map.
BaselineStepWrongMap(result, base, cur, key) ==
    LET res == base.Resources[key] IN
    IF key \notin Keys(base)
    THEN [ result EXCEPT !.Removed = Append(@, RemovedEntry(res, res)) ]
    ELSE result

\* One iteration of `for key, res := range baseline.Resources`.
BaselineStep(result, base, cur, key) ==
    LET res == base.Resources[key] IN
    IF key \notin Keys(cur)
    THEN [ result EXCEPT !.Removed = Append(@, RemovedEntry(res, res)) ]
    ELSE result

RECURSIVE CurrentLoop(_, _, _, _, _)
CurrentLoop(result, base, cur, ord, i) ==
    IF i > Len(ord) THEN result
    ELSE CurrentLoop(CurrentStep(result, base, cur, ord[i]), base, cur, ord, i + 1)

RECURSIVE BaselineLoop(_, _, _, _, _)
BaselineLoop(result, base, cur, ord, i) ==
    IF i > Len(ord) THEN result
    ELSE BaselineLoop(BaselineStep(result, base, cur, ord[i]), base, cur, ord, i + 1)

\* func Compare(baseline, current *snapshot.Snapshot) *DiffResult
\* curOrd / baseOrd: the orders in which the two range loops visit the maps.
Compare(base, cur, curOrd, baseOrd) ==
    BaselineLoop(CurrentLoop(EmptyDiffResult, base, cur, curOrd, 1),
                 base, cur, baseOrd, 1)

\* Mutant of CompareCall: the keys found in current are deleted from the
\* baseline map while diffing (delete(baseline.Resources, key)).
CompareCallConsuming(base, cur, curOrd, baseOrd) ==
    [ result   |-> Compare(base, cur, curOrd, baseOrd),
      baseline |-> [ base EXCEPT !.Resources =
                       [ k \in Keys(base) \ Keys(cur) |-> base.Resources[k] ] ],
      current  |-> cur ]

\* The call as its caller sees it: the returned result and the snapshots the
\* two pointer arguments refer to after the call. Compare only reads them.
CompareCall(base, cur, curOrd, baseOrd) ==
    [ result   |-> Compare(base, cur, curOrd, baseOrd),
      baseline |-> base,
      current  |-> cur ]

\* Keys of the entries of one of the three sequences.
EntryKey(e) == ResourceKey(e.Resource.GroupVersionKind, e.Resource.Namespace,
                           e.Resource.Name)
EntryKeys(seq) == { EntryKey(seq[i]) : i \in 1..Len(seq) }

(***************************************************************************)
(* SpecCompare: Compare applied to every pair of bounded snapshots.        *)
(***************************************************************************)
CompareInputs ==
    { Snapshot(CaptureTime, "", r) : r \in ResourceMaps(MaxKeys) }

TuiIdle ==
    /\ state = "Ready"
    /\ baseline = Nil /\ current = Nil /\ diffResult = Nil
    /\ diffOutput = Text("") /\ outputFormat = "table" /\ resourceFilter = "all"
    /\ selectedResource = Nil /\ error = Nil
    /\ tableRows = <<>> /\ tableCursor = 0
    /\ viewportContent = Text("") /\ statusMessage = ""
    /\ pending = EmptyBag /\ running = TRUE
    /\ captures = 0 /\ viewKeys = 0

\* No snapshot file is being written or read.
FileIdle ==
    /\ fileSnapshot = Nil /\ tempDir = <<>> /\ saveErr = Nil /\ loaded = Nil

\* No filter has been built.
FilterIdle == rf = Nil /\ compileErr = Nil /\ excluded = Nil

\* No capture is being followed call by call.
CaptureIdle ==
    /\ startFlags = Nil
    /\ capPc = "idle" /\ capIgnore = "" /\ capSnapshot = Nil
    /\ capTypes = <<>> /\ capCalls = <<>> /\ capResult = Nil

\* No dialog is waiting.
DialogIdle == dlgPc = "idle" /\ dlgLines = <<>> /\ dlgResult = Nil /\ dlgHints = 0

LibIdle == FileIdle /\ FilterIdle /\ CaptureIdle /\ DialogIdle

CompareIdle ==
    /\ cmpPc = "idle" /\ cmpBaseline = Nil /\ cmpCurrent = Nil /\ cmpResult = Nil

InitCompare ==
    /\ TuiIdle
    /\ LibIdle
    /\ cmpPc = "start"
    /\ cmpBaseline \in CompareInputs
    /\ cmpCurrent \in CompareInputs
    /\ cmpResult = Nil

\* result := Compare(baseline, current)
DoCompare ==
    /\ cmpPc = "start"
    /\ \E curOrd \in Orders(Keys(cmpCurrent)), baseOrd \in Orders(Keys(cmpBaseline)) :
         LET call == CompareCall(cmpBaseline, cmpCurrent, curOrd, baseOrd) IN
         /\ cmpResult' = call.result
         /\ cmpBaseline' = call.baseline
         /\ cmpCurrent' = call.current
    /\ cmpPc' = "done"
    /\ UNCHANGED <<tuiVars, libVars>>

NextCompare == DoCompare

SpecCompare == InitCompare /\ [][NextCompare]_vars

(***************************************************************************)
(* Snapshot.SaveToFile and LoadFromFile (SpecFile).                        *)
(***************************************************************************)
\* snapshots of the file round trip hold at most this many resources
MaxFileKeys == 2

\* A time.Time: the wall-clock instant, and whether the value carries a
\* monotonic clock reading (time.Now() does; a decoded value does not).
Time(date, clock, frac, mono) ==
    [ date |-> date, clock |-> clock, frac |-> frac, mono |-> mono ]

\* Two captures within the same second, and one a day later.
FileTimes ==
    { Time("2024-06-01", "12:00:00", "", TRUE),
      Time("2024-06-01", "12:00:00", ".5", TRUE),
      Time("2024-06-02", "12:00:00", "", FALSE) }

\* The layout "20060102-150405" of the file name: whole seconds.
FormatStamp(time) == time.date \o "-" \o time.clock

\* Time.MarshalJSON: RFC 3339 with the fraction of the second when it has one.
MarshalTime(time) == time.date \o "T" \o time.clock \o time.frac \o "Z"

\* Time.UnmarshalJSON: the instant the text denotes, without monotonic reading.
UnmarshalTime(text) ==
    LET time == CHOOSE x \in FileTimes : MarshalTime(x) = text
    IN  Time(time.date, time.clock, time.frac, FALSE)

\* The field names of ResourceInfo and their json tags.
ResourceInfoFields ==
    << <<"GroupVersionKind", "groupVersionKind">>,
       <<"Namespace", "namespace">>,
       <<"Name", "name">>,
       <<"UID", "uid">>,
       <<"ResourceVersion", "resourceVersion">>,
       <<"CreationTimestamp", "creationTimestamp">>,
       <<"SpecHash", "specHash">>,
       <<"Manifest", "manifest">> >>

FieldOfTag(tag) ==
    (CHOOSE i \in 1..Len(ResourceInfoFields) : ResourceInfoFields[i][2] = tag)

TagSet == { ResourceInfoFields[i][2] : i \in 1..Len(ResourceInfoFields) }

\* A variant of the encoder that leaves the specHash member out.
MarshalResourceInfoNoHash(info) ==
    [ tag \in { g \in TagSet : g # "specHash" /\ ~ (g = "manifest" /\ info.Manifest = "") } |->
        info[ResourceInfoFields[FieldOfTag(tag)][1]] ]

\* json.Marshal of a ResourceInfo: one member per field under its tag;
\* manifest is tagged omitempty and left out when it is empty.
MarshalResourceInfo(info) ==
    [ tag \in { g \in TagSet : ~ (g = "manifest" /\ info.Manifest = "") } |->
        info[ResourceInfoFields[FieldOfTag(tag)][1]] ]

\* json.Unmarshal into a ResourceInfo: each field from the member with its
\* tag, the zero value when the member is absent.
UnmarshalResourceInfo(object) ==
    LET Member(tag) == IF tag \in DOMAIN object THEN object[tag] ELSE "" IN
    [ GroupVersionKind  |-> Member("groupVersionKind"),
      Namespace         |-> Member("namespace"),
      Name              |-> Member("name"),
      UID               |-> Member("uid"),
      ResourceVersion   |-> Member("resourceVersion"),
      CreationTimestamp |-> Member("creationTimestamp"),
      SpecHash          |-> Member("specHash"),
      Manifest          |-> Member("manifest") ]

\* json.MarshalIndent(s, "", "  ")
MarshalSnapshot(s) ==
    [ timestamp |-> MarshalTime(s.Timestamp),
      namespace |-> s.Namespace,
      resources |-> [ k \in DOMAIN s.Resources |-> MarshalResourceInfo(s.Resources[k]) ] ]

\* json.Unmarshal(data, &snapshot)
UnmarshalSnapshot(data) ==
    [ Timestamp |-> UnmarshalTime(data.timestamp),
      Namespace |-> data.namespace,
      Resources |-> [ k \in DOMAIN data.resources |->
                        UnmarshalResourceInfo(data.resources[k]) ] ]

\* filepath.Join(tempDir, fmt.Sprintf("k8s-rdiff-%s-%s.json", namespace, timestamp))
FileName(s) ==
    "k8s-rdiff-" \o (IF s.Namespace = "" THEN "all-namespaces" ELSE s.Namespace)
        \o "-" \o FormatStamp(s.Timestamp) \o ".json"

\* A record whose manifest could not be produced (app.go:1302-1308).
WithoutManifest(info) == [ info EXCEPT !.Manifest = "" ]

\* The snapshots saved: every bounded Resources map, with and without
\* manifests, in both scopes, at each of the instants.
FileInputs ==
    { Snapshot(time, ns, IF manifests THEN r
                         ELSE [ k \in DOMAIN r |-> WithoutManifest(r[k]) ])
        : time \in FileTimes, ns \in { "", "myapp" },
          r \in ResourceMaps(MaxFileKeys), manifests \in BOOLEAN }

InitFile ==
    /\ TuiIdle
    /\ CompareIdle
    /\ DialogIdle
    /\ fileSnapshot \in FileInputs
    /\ tempDir = <<>>
    /\ saveErr = Nil
    /\ loaded = Nil
    /\ FilterIdle
    /\ CaptureIdle

\* func (s *Snapshot) SaveToFile() error
SaveToFile ==
    /\ fileSnapshot # Nil
    /\ saveErr = Nil
    /\ FileName(fileSnapshot) \notin DOMAIN tempDir
    /\ \/ /\ tempDir' = [ name \in DOMAIN tempDir \cup { FileName(fileSnapshot) } |->
                            IF name = FileName(fileSnapshot)
                            THEN MarshalSnapshot(fileSnapshot)
                            ELSE tempDir[name] ]
          /\ UNCHANGED saveErr
       \/ /\ saveErr' = [ msg |-> "failed to write snapshot" ]
          /\ UNCHANGED tempDir
    /\ UNCHANGED <<fileSnapshot, loaded, tuiVars, cmpVars, dialogVars, filterVars, captureVars>>

\* func LoadFromFile(filename string) (*Snapshot, error)
LoadFromFile ==
    /\ loaded = Nil
    /\ \E filename \in DOMAIN tempDir :
         \/ loaded' = [ snapshot |-> UnmarshalSnapshot(tempDir[filename]), err |-> Nil ]
         \/ loaded' = [ snapshot |-> Nil, err |-> [ msg |-> "failed to read snapshot" ] ]
    /\ UNCHANGED <<fileSnapshot, tempDir, saveErr, tuiVars, cmpVars, dialogVars, filterVars, captureVars>>

NextFile == SaveToFile \/ LoadFromFile

SpecFile == InitFile /\ [][NextFile]_vars

(***************************************************************************)
(* filter.ResourceFilter (SpecFilter).                                     *)
(***************************************************************************)
\* patterns one With... call sequence appends to a list of the filter
MaxPatterns == 2

\* The labels "groupVersion/Kind" of the resource types of the modelled cluster.
ResourceTypes ==
    { "v1/Pod", "v1/ConfigMap", "v1/Namespace", "v1/Secret", "apps/v1/Deployment" }

\* func DefaultNoisyResources() []string
DefaultNoisyResources ==
    << "^events\\.k8s\\.io/v1/Event$",
       "^events\\.k8s\\.io/v1beta1/Event$",
       "^v1/Event$",
       "^v1/Endpoints$",
       "^discovery\\.k8s\\.io/v1/EndpointSlice$",
       "^discovery\\.k8s\\.io/v1beta1/EndpointSlice$",
       "^coordination\\.k8s\\.io/v1/Lease$",
       "^v1/Pod$",
       "^admissionregistration\\.k8s\\.io/v1/MutatingWebhookConfiguration$",
       "^admissionregistration\\.k8s\\.io/v1/ValidatingWebhookConfiguration$",
       "^autoscaling/v[12]/HorizontalPodAutoscaler$",
       "^source\\.toolkit\\.fluxcd\\.io/v1beta1/GitRepository$",
       "^source\\.toolkit\\.fluxcd\\.io/v1beta2/GitRepository$",
       "^monitoring\\.coreos\\.com/v1/ServiceMonitor$",
       "^monitoring\\.coreos\\.com/v1/PodMonitor$",
       "^v1/Node$",
       "^helm\\.toolkit\\.fluxcd\\.io/v1/HelmRelease$",
       "^helm\\.toolkit\\.fluxcd\\.io/v2beta1/HelmRelease$",
       "^helm\\.toolkit\\.fluxcd\\.io/v2/HelmRelease$",
       "^helm\\.toolkit\\.fluxcd\\.io/v2beta2/HelmRelease$",
       "^kommander\\.d2iq\\.io/v1alpha2/HelmReleaseStatus$",
       "^kommander\\.d2iq\\.io/v1alpha1/HelmReleaseStatus$" >>

\* The patterns a caller supplies: three regular expressions and one string
\* that is not one (a group that is never closed).
UserPatterns == { "^v1/Pod$", "^v1/", "Deployment$", "(" }

\* regexp.Compile(pattern) succeeds.
IsRegexp(pattern) == pattern # "("

\* The labels of ResourceTypes a regular expression matches (MatchString is
\* unanchored).  The empty expression matches every label; the default
\* noisy patterns other than ^v1/Pod$ match none of the modelled labels.
Language(pattern) ==
    CASE pattern = ""            -> ResourceTypes
      [] pattern = "^v1/Pod$"    -> { "v1/Pod" }
      [] pattern = "^v1/"        -> { "v1/Pod", "v1/ConfigMap", "v1/Namespace", "v1/Secret" }
      [] pattern = "Deployment$" -> { "apps/v1/Deployment" }
      [] OTHER                   -> {}

\* regexp.MustCompile(pattern).MatchString(label), for a regular expression
MatchString(pattern, label) == label \in Language(pattern)

\* func NewResourceFilter() *ResourceFilter
NewResourceFilter ==
    [ IncludePatterns |-> <<>>, ExcludePatterns |-> <<>>, compiledFilter |-> Nil ]

\* func (rf *ResourceFilter) WithNoisy() *ResourceFilter
WithNoisy(filter) ==
    [ filter EXCEPT !.ExcludePatterns = @ \o DefaultNoisyResources ]

\* func (rf *ResourceFilter) WithExcludes(patterns []string) *ResourceFilter
WithExcludes(filter, patterns) ==
    [ filter EXCEPT !.ExcludePatterns = @ \o patterns ]

\* func (rf *ResourceFilter) WithIncludes(patterns []string) *ResourceFilter
WithIncludes(filter, patterns) ==
    [ filter EXCEPT !.IncludePatterns = @ \o patterns ]

\* pattern := "(" + strings.Join(rf.ExcludePatterns, ")|(") + ")": the
\* alternatives of the joined expression.  Joining no pattern gives "()",
\* whose one alternative is the empty expression.
Alternatives(patterns) == IF patterns = <<>> THEN << "" >> ELSE patterns

\* regexp.Compile of the joined expression: it is a regular expression when
\* every alternative is one.
CompileAlternation(patterns) ==
    IF \A i \in 1..Len(Alternatives(patterns)) : IsRegexp(Alternatives(patterns)[i])
    THEN [ compiled |-> [ alternatives |-> Alternatives(patterns) ], err |-> Nil ]
    ELSE [ compiled |-> Nil, err |-> [ msg |-> "error parsing regexp" ] ]

\* A variant of Compile without the shortcut for an empty exclude list.
CompileWithoutShortcut(filter) ==
    LET c == CompileAlternation(filter.ExcludePatterns) IN
    IF c.err # Nil THEN [ filter |-> filter, err |-> c.err ]
    ELSE [ filter |-> [ filter EXCEPT !.compiledFilter = c.compiled ], err |-> Nil ]

\* func (rf *ResourceFilter) Compile() error
Compile(filter) ==
    IF Len(filter.ExcludePatterns) = 0
    THEN [ filter |-> [ filter EXCEPT !.compiledFilter = Nil ], err |-> Nil ]
    ELSE LET c == CompileAlternation(filter.ExcludePatterns) IN
         IF c.err # Nil THEN [ filter |-> filter, err |-> c.err ]
         ELSE [ filter |-> [ filter EXCEPT !.compiledFilter = c.compiled ], err |-> Nil ]

\* rf.compiledFilter.MatchString(resourceType)
MatchCompiled(compiled, label) ==
    \E i \in 1..Len(compiled.alternatives) : MatchString(compiled.alternatives[i], label)

Returned(value) == [ returned |-> value ]
Panic == [ panic |-> "regexp: Compile: error parsing regexp" ]

\* for _, include := range rf.IncludePatterns {
\*     if regexp.MustCompile(include).MatchString(resourceType) { return false } }
\* return true
RECURSIVE IncludeLoop(_, _)
IncludeLoop(includes, label) ==
    IF includes = <<>> THEN Returned(TRUE)
    ELSE IF ~IsRegexp(Head(includes)) THEN Panic
    ELSE IF MatchString(Head(includes), label) THEN Returned(FALSE)
    ELSE IncludeLoop(Tail(includes), label)

\* func (rf *ResourceFilter) ShouldExclude(resourceType string) bool
ShouldExclude(filter, label) ==
    IF filter.compiledFilter = Nil THEN Returned(FALSE)
    ELSE IF MatchCompiled(filter.compiledFilter, label)
    THEN IncludeLoop(filter.IncludePatterns, label)
    ELSE Returned(FALSE)

\* rf.Compile() has returned nil.
Compiled == rf # Nil /\ rf.compiled /\ compileErr = Nil

InitFilter ==
    /\ TuiIdle
    /\ CompareIdle
    /\ DialogIdle
    /\ FileIdle
    /\ rf = [ filter |-> NewResourceFilter, compiled |-> FALSE ]
    /\ compileErr = Nil
    /\ excluded = Nil
    /\ CaptureIdle

\* rf.WithExcludes([]string{pattern}), before Compile
WithExcludesCall ==
    /\ ~rf.compiled /\ compileErr = Nil
    /\ Len(rf.filter.ExcludePatterns) < MaxPatterns
    /\ \E pattern \in UserPatterns :
         rf' = [ rf EXCEPT !.filter = WithExcludes(@, << pattern >>) ]
    /\ UNCHANGED <<compileErr, excluded, tuiVars, cmpVars, dialogVars, fileVars, captureVars>>

\* rf.WithIncludes([]string{pattern}), before Compile
WithIncludesCall ==
    /\ ~rf.compiled /\ compileErr = Nil
    /\ Len(rf.filter.IncludePatterns) < MaxPatterns
    /\ \E pattern \in UserPatterns :
         rf' = [ rf EXCEPT !.filter = WithIncludes(@, << pattern >>) ]
    /\ UNCHANGED <<compileErr, excluded, tuiVars, cmpVars, dialogVars, fileVars, captureVars>>

\* err := rf.Compile()
CompileCall ==
    /\ ~rf.compiled /\ compileErr = Nil
    /\ LET call == Compile(rf.filter) IN
       /\ rf' = [ filter |-> call.filter, compiled |-> call.err = Nil ]
       /\ compileErr' = call.err
    /\ UNCHANGED <<excluded, tuiVars, cmpVars, dialogVars, fileVars, captureVars>>

\* rf.ShouldExclude(label) on the compiled filter
ShouldExcludeCall ==
    /\ Compiled
    /\ excluded = Nil
    /\ \E label \in ResourceTypes :
         excluded' = [ label |-> label, outcome |-> ShouldExclude(rf.filter, label) ]
    /\ UNCHANGED <<rf, compileErr, tuiVars, cmpVars, dialogVars, fileVars, captureVars>>

NextFilter ==
    \/ WithExcludesCall
    \/ WithIncludesCall
    \/ CompileCall
    \/ ShouldExcludeCall

SpecFilter == InitFilter /\ [][NextFilter]_vars

(***************************************************************************)
(* The environment of the TUI: what a capture can return.                  *)
(***************************************************************************)
\* Contents the cluster may have when a capture lists it. Between two
\* captures the operator acts out-of-band, so any of them may follow any.
ClusterStateList ==
    << \* 1: a Deployment and a ConfigMap
       { ResourceInfo(IdentityList[1], "1", "h1"),
         ResourceInfo(IdentityList[2], "1", "h1") },
       \* 2: the Deployment rewritten (version only), the ConfigMap gone,
       \*    a Namespace new
       { ResourceInfo(IdentityList[1], "2", "h1"),
         ResourceInfo(IdentityList[3], "1", "h1") },
       \* 3: nothing listed
       { },
       \* 4: the Deployment with a new spec, ConfigMap and Secret
       { ResourceInfo(IdentityList[1], "2", "h2"),
         ResourceInfo(IdentityList[2], "1", "h1"),
         ResourceInfo(IdentityList[4], "1", "h1") } >>

InfoKey(info) == ResourceKey(info.GroupVersionKind, info.Namespace, info.Name)

\* snapshot.Resources[key] = resourceInfo for every listed resource
ResourcesOf(infos) ==
    [ k \in { InfoKey(i) : i \in infos } |-> CHOOSE i \in infos : InfoKey(i) = k ]

ClusterStates ==
    { ResourcesOf(ClusterStateList[i]) :
        i \in 1..Min(MaxClusterStates, Len(ClusterStateList)) }

\* The errors CaptureSnapshot returns (with a nil snapshot).
CaptureErrors ==
    { [ msg |-> "failed to create Kubernetes client" ],
      [ msg |-> "failed to compile resource filter" ],
      [ msg |-> "failed to discover API resources" ] }

\* m.namespace: the scope the TUI was started with ("" = all namespaces)
Namespace == ""

\* snapshot.CaptureSnapshot(m.namespace, m.ignorePattern, m.kubeconfigPath)
\* returns (snapshot, nil) or (nil, err).
CaptureSnapshot ==
    { [ snapshot |-> Snapshot(CaptureTime, Namespace, r), err |-> Nil ] : r \in ClusterStates }
        \cup { [ snapshot |-> Nil, err |-> e ] : e \in CaptureErrors }

(***************************************************************************)
(* Rendering helpers of the TUI.                                           *)
(***************************************************************************)
\* table.Row of an Added or Removed entry
PlainRow(op, res) ==
    << op, res.Resource.GroupVersionKind, res.Resource.Namespace, res.Resource.Name,
       res.Resource.ResourceVersion, res.Resource.SpecHash >>

\* table.Row of a Modified entry
ModifiedRow(res) ==
    << "Modified", res.Resource.GroupVersionKind, res.Resource.Namespace,
       res.Resource.Name,
       res.OldResourceVersion \o " → " \o res.NewResourceVersion,
       res.OldSpecHash \o " → " \o res.NewSpecHash >>

\* func buildTableRowsForAddedOnly(diffResult) []table.Row
buildTableRowsForAddedOnly(d) ==
    [ i \in 1..Len(d.Added) |-> PlainRow("Added", d.Added[i]) ]

\* func buildTableRowsForRemovedOnly(diffResult) []table.Row
buildTableRowsForRemovedOnly(d) ==
    [ i \in 1..Len(d.Removed) |-> PlainRow("Removed", d.Removed[i]) ]

\* func buildTableRowsForModifiedOnly(diffResult) []table.Row
buildTableRowsForModifiedOnly(d) ==
    [ i \in 1..Len(d.Modified) |-> ModifiedRow(d.Modified[i]) ]

\* func buildTableRows(diffResult) []table.Row
buildTableRows(d) ==
    buildTableRowsForAddedOnly(d) \o buildTableRowsForRemovedOnly(d)
        \o buildTableRowsForModifiedOnly(d)

\* encoding/json of a ResourceInfo (json tags; manifest is omitempty)
JSONResource(r) ==
    [ f \in { "groupVersionKind", "namespace", "name", "uid", "resourceVersion",
              "creationTimestamp", "specHash" }
            \cup (IF r.Manifest # "" THEN { "manifest" } ELSE {}) |->
        CASE f = "groupVersionKind"  -> r.GroupVersionKind
          [] f = "namespace"         -> r.Namespace
          [] f = "name"              -> r.Name
          [] f = "uid"               -> r.UID
          [] f = "resourceVersion"   -> r.ResourceVersion
          [] f = "creationTimestamp" -> r.CreationTimestamp
          [] f = "specHash"          -> r.SpecHash
          [] f = "manifest"          -> r.Manifest ]

\* encoding/json of a ResourceDiff: old/new fields are omitempty, the two
\* record pointers are tagged json:"-"
JSONEntry(e) ==
    [ f \in { "type", "resource" }
            \cup (IF e.OldResourceVersion # "" THEN { "oldResourceVersion" } ELSE {})
            \cup (IF e.NewResourceVersion # "" THEN { "newResourceVersion" } ELSE {})
            \cup (IF e.OldSpecHash # "" THEN { "oldSpecHash" } ELSE {})
            \cup (IF e.NewSpecHash # "" THEN { "newSpecHash" } ELSE {}) |->
        CASE f = "type"               -> [ str |-> e.Type ]
          [] f = "resource"           -> JSONResource(e.Resource)
          [] f = "oldResourceVersion" -> [ str |-> e.OldResourceVersion ]
          [] f = "newResourceVersion" -> [ str |-> e.NewResourceVersion ]
          [] f = "oldSpecHash"        -> [ str |-> e.OldSpecHash ]
          [] f = "newSpecHash"        -> [ str |-> e.NewSpecHash ] ]

\* func OutputJSON(diff *DiffResult, writer io.Writer)
OutputJSON(d) ==
    IF d = Nil THEN [ kind |-> "json", doc |-> Nil ]
    ELSE [ kind |-> "json",
           doc  |-> [ added    |-> [ i \in 1..Len(d.Added) |-> JSONEntry(d.Added[i]) ],
                      removed  |-> [ i \in 1..Len(d.Removed) |-> JSONEntry(d.Removed[i]) ],
                      modified |-> [ i \in 1..Len(d.Modified) |-> JSONEntry(d.Modified[i]) ] ] ]

\* yaml.v2 of a ResourceInfo: the structs carry no yaml tags, so every
\* exported field is written under its lower-cased name
YAMLResource(r) ==
    IF r = Nil THEN Nil
    ELSE [ groupversionkind  |-> r.GroupVersionKind,
           namespace         |-> r.Namespace,
           name              |-> r.Name,
           uid               |-> r.UID,
           resourceversion   |-> r.ResourceVersion,
           creationtimestamp |-> r.CreationTimestamp,
           spechash          |-> r.SpecHash,
           manifest          |-> r.Manifest ]

\* yaml.v2 of a ResourceDiff (json tags, "-" and omitempty do not apply)
YAMLEntry(e) ==
    [ type               |-> e.Type,
      resource           |-> YAMLResource(e.Resource),
      oldresourceversion |-> e.OldResourceVersion,
      newresourceversion |-> e.NewResourceVersion,
      oldspechash        |-> e.OldSpecHash,
      newspechash        |-> e.NewSpecHash,
      baselineresource   |-> YAMLResource(e.BaselineResource),
      currentresource    |-> YAMLResource(e.CurrentResource) ]

\* func OutputYAML(diff *DiffResult, writer io.Writer)
OutputYAML(d) ==
    IF d = Nil THEN [ kind |-> "yaml", doc |-> Nil ]
    ELSE [ kind |-> "yaml",
           doc  |-> [ added    |-> [ i \in 1..Len(d.Added) |-> YAMLEntry(d.Added[i]) ],
                      removed  |-> [ i \in 1..Len(d.Removed) |-> YAMLEntry(d.Removed[i]) ],
                      modified |-> [ i \in 1..Len(d.Modified) |-> YAMLEntry(d.Modified[i]) ] ] ]

\* Index of the first entry of seq with the row's kind, namespace and name
\* (0 when there is none): the loop of findSelectedResource.
RECURSIVE FirstMatch(_, _, _)
FirstMatch(seq, row, i) ==
    IF i > Len(seq) THEN 0
    ELSE IF /\ seq[i].Resource.GroupVersionKind = row[2]
            /\ seq[i].Resource.Namespace = row[3]
            /\ seq[i].Resource.Name = row[4]
         THEN i
         ELSE FirstMatch(seq, row, i + 1)

\* A variant of findSelectedResource that looks for the row's identity in all
\* three sequences, whatever the row's kind.
findSelectedResourceAnyKind(d, selectedRow) ==
    IF Len(selectedRow) < 6 \/ d = Nil THEN Nil
    ELSE LET resources == d.Added \o d.Removed \o d.Modified
             i == FirstMatch(resources, selectedRow, 1)
         IN  IF i = 0 THEN Nil ELSE resources[i]

\* func (m Model) findSelectedResource(selectedRow table.Row) *diff.ResourceDiff
findSelectedResource(d, selectedRow) ==
    IF Len(selectedRow) < 6 \/ d = Nil THEN Nil
    ELSE IF selectedRow[1] \notin { "Added", "Removed", "Modified" } THEN Nil
    ELSE LET resources == CASE selectedRow[1] = "Added"    -> d.Added
                            [] selectedRow[1] = "Removed"  -> d.Removed
                            [] selectedRow[1] = "Modified" -> d.Modified
             i == FirstMatch(resources, selectedRow, 1)
         IN  IF i = 0 THEN Nil ELSE resources[i]

\* func generateYAMLDiff(oldYAML, newYAML string) string: the text comparison
\* of the two manifests, kept as the pair it is computed from
generateYAMLDiff(oldYAML, newYAML) == [ old |-> oldYAML, new |-> newYAML ]

\* A variant of the detail text that shows a Modified entry as its current
\* manifest alone.
DetailOutputCurrentFirst(sel) ==
    [ kind      |-> "detail",
      Kind      |-> sel.Resource.GroupVersionKind,
      Name      |-> sel.Resource.Name,
      Namespace |-> sel.Resource.Namespace,
      section   |-> IF IsPresentInCurrent(sel) THEN "Added Resource"
                    ELSE "Removed Resource",
      body      |-> IF IsPresentInCurrent(sel)
                    THEN [ manifest |-> sel.CurrentResource.Manifest ]
                    ELSE [ manifest |-> sel.BaselineResource.Manifest ] ]

\* The text loadResourceDetailCmd builds for the selected entry.
DetailOutput(sel) ==
    [ kind      |-> "detail",
      Kind      |-> sel.Resource.GroupVersionKind,
      Name      |-> sel.Resource.Name,
      Namespace |-> sel.Resource.Namespace,
      section   |-> IF IsPresentInBaseline(sel) /\ IsPresentInCurrent(sel)
                    THEN "YAML Diff"
                    ELSE IF IsPresentInBaseline(sel) THEN "Removed Resource"
                    ELSE "Added Resource",
      body      |-> IF IsPresentInBaseline(sel) /\ IsPresentInCurrent(sel)
                    THEN generateYAMLDiff(sel.BaselineResource.Manifest,
                                          sel.CurrentResource.Manifest)
                    ELSE IF IsPresentInBaseline(sel)
                    THEN [ manifest |-> sel.BaselineResource.Manifest ]
                    ELSE [ manifest |-> sel.CurrentResource.Manifest ] ]

(***************************************************************************)
(* Commands: what each tea.Cmd posts back. A command is a closure over the *)
(* model value of the Update call that created it, and the values it reads *)
(* are never written afterwards, so its message is fixed when it is        *)
(* dispatched. A command that returns nil posts nothing.                   *)
(***************************************************************************)
NoMsgs == <<>>

\* A variant of captureCurrentStateCmd that posts nothing.
captureCurrentStateCmdSilent(r) == <<>>

\* func (m Model) captureBaselineCmd() tea.Cmd
captureBaselineCmd(r) ==
    << [ type |-> "baselineCapturedMsg", snapshot |-> r.snapshot, err |-> r.err ] >>

\* func (m Model) captureCurrentStateCmd() tea.Cmd
captureCurrentStateCmd(r) ==
    << [ type |-> "currentStateCapturedMsg", snapshot |-> r.snapshot, err |-> r.err ] >>

\* m.spinner.Tick
spinnerTick == << [ type |-> "spinner.TickMsg" ] >>

\* func (m Model) updateDiffOutputCmd() tea.Cmd, for the m.outputFormat and
\* m.diffResult of the dispatching Update
updateDiffOutputCmd(format, d) ==
    << [ type   |-> "diffOutputUpdatedMsg",
         output |-> CASE format = "json" -> OutputJSON(d)
                      [] format = "yaml" -> OutputYAML(d)
                      [] OTHER -> IF IsEmpty(d) THEN Text("No differences detected")
                                  ELSE Text("") ] >>

\* A variant of updateTableWithFilterCmd that ignores the filter.
updateTableUnfiltered(filter, d) ==
    IF d = Nil THEN <<>>
    ELSE << [ type |-> "tableUpdatedMsg", rows |-> buildTableRows(d) ] >>

\* func (m Model) updateTableWithFilterCmd() tea.Cmd
updateTableWithFilterCmd(filter, d) ==
    IF d = Nil THEN NoMsgs
    ELSE << [ type |-> "tableUpdatedMsg",
              rows |-> CASE filter = "all"      -> buildTableRows(d)
                         [] filter = "added"    -> buildTableRowsForAddedOnly(d)
                         [] filter = "removed"  -> buildTableRowsForRemovedOnly(d)
                         [] filter = "modified" -> buildTableRowsForModifiedOnly(d) ] >>

\* func (m Model) loadResourceDetailCmd() tea.Cmd
loadResourceDetailCmd(sel) ==
    IF sel = Nil THEN NoMsgs
    ELSE << [ type |-> "resourceDetailLoadedMsg", output |-> DetailOutput(sel) ] >>

\* A variant of the timer command that never posts its message.
hideStatusMessageCmdNever == NoMsgs

\* func hideStatusMessageCmd(seconds int) tea.Cmd
hideStatusMessageCmd == << [ type |-> "clearStatusMessageMsg" ] >>

\* tea.Batch(cmds...): every command runs; its message joins those in flight.
\* The spinner's frame is not part of the modelled state, so the number of
\* its ticks in flight is immaterial: one token stands for all of them.
RECURSIVE Dispatch(_, _)
Dispatch(bag, msgs) ==
    IF msgs = <<>> THEN bag
    ELSE IF Head(msgs).type = "spinner.TickMsg" /\ BagIn(Head(msgs), bag)
    THEN Dispatch(bag, Tail(msgs))
    ELSE Dispatch(bag (+) SetToBag({ Head(msgs) }), Tail(msgs))

\* The message is taken off the runtime's channel and handed to Update.
Deliver(bag, msg) == bag (-) SetToBag({ msg })

InFlight(type) == { m \in BagToSet(pending) : m.type = type }

(***************************************************************************)
(* bubbles/table as the TUI uses it: rows and a cursor.                    *)
(***************************************************************************)
Max(a, b) == IF a > b THEN a ELSE b

\* clamp(v, low, high) of bubbles/table
Clamp(v, low, high) == Min(Max(v, low), high)

\* table.SetRows: the cursor is pulled back onto the last row
SetRowsCursor(cursor, rows) == IF cursor > Len(rows) - 1 THEN Len(rows) - 1 ELSE cursor

\* table.MoveUp(n) / table.MoveDown(n)
MoveUp(cursor, rows, n) == Clamp(cursor - n, 0, Len(rows) - 1)
MoveDown(cursor, rows, n) == Clamp(cursor + n, 0, Len(rows) - 1)

\* table.SelectedRow(): nil (the empty row) when the cursor is on no row
SelectedRow(cursor, rows) ==
    IF cursor < 0 \/ cursor >= Len(rows) THEN <<>> ELSE rows[cursor + 1]

(***************************************************************************)
(* Model.Update: one action per message.                                   *)
(***************************************************************************)
Capturing == state \in { "CapturingBaseline", "CapturingCurrent" }

RenderTypes == { "diffOutputUpdatedMsg", "tableUpdatedMsg",
                 "resourceDetailLoadedMsg", "clearStatusMessageMsg" }

\* Number of render / timer messages in flight.
RenderInFlight ==
    BagCardinality([ m \in { x \in BagToSet(pending) : x.type \in RenderTypes } |->
                        pending[m] ])

\* The model lets a key dispatch a render or timer command only while fewer
\* than MaxPending of their messages are in flight.
HasRoom == RenderInFlight < MaxPending

\* A view input that takes effect is one of the session's MaxViewKeys.
ViewKey == viewKeys < MaxViewKeys /\ viewKeys' = viewKeys + 1

\* Update returned (m, tea.Batch(cmds...)) without touching these fields.
ModelUnchanged ==
    UNCHANGED <<state, baseline, current, diffResult, diffOutput, outputFormat,
                resourceFilter, selectedResource, error, tableRows, tableCursor,
                viewportContent, statusMessage>>

\* A variant of the ForceQuit case that is ignored during a capture.
KeyForceQuitIdleOnly ==
    /\ running
    /\ running' = Capturing
    /\ ModelUnchanged
    /\ UNCHANGED <<pending, captures, viewKeys, cmpVars, libVars>>

\* case key.Matches(msg, m.keyMap.ForceQuit): return m, tea.Quit
KeyForceQuit ==
    /\ running
    /\ running' = FALSE
    /\ ModelUnchanged
    /\ UNCHANGED <<pending, captures, viewKeys, cmpVars, libVars>>

\* A variant of the Quit case that also ends the loop during a capture.
KeyQuitWhileCapturing ==
    /\ running
    /\ IF state = "ShowingResourceDetail"
       THEN /\ state' = "ShowingDiff"
            /\ running' = TRUE
       ELSE /\ running' = FALSE
            /\ state' = state
    /\ UNCHANGED <<baseline, current, diffResult, diffOutput, outputFormat,
                   resourceFilter, selectedResource, error, tableRows, tableCursor,
                   viewportContent, statusMessage, pending, captures, viewKeys,
                   cmpVars, libVars>>

\* case key.Matches(msg, m.keyMap.Quit)
KeyQuit ==
    /\ running
    /\ IF state = "ShowingResourceDetail"
       THEN /\ state' = "ShowingDiff"
            /\ running' = TRUE
       ELSE IF ~Capturing
       THEN /\ running' = FALSE
            /\ state' = state
       ELSE /\ running' = TRUE
            /\ state' = state
    /\ UNCHANGED <<baseline, current, diffResult, diffOutput, outputFormat,
                   resourceFilter, selectedResource, error, tableRows, tableCursor,
                   viewportContent, statusMessage, pending, captures, viewKeys, cmpVars, libVars>>

\* case key.Matches(msg, m.keyMap.Escape) && m.state == stateShowingResourceDetail
KeyEscape ==
    /\ running
    /\ IF state = "ShowingResourceDetail"
       THEN /\ state' = "ShowingDiff"
            /\ selectedResource' = Nil
       ELSE UNCHANGED <<state, selectedResource>>
    /\ UNCHANGED <<baseline, current, diffResult, diffOutput, outputFormat,
                   resourceFilter, error, tableRows, tableCursor, viewportContent,
                   statusMessage, pending, running, captures, viewKeys, cmpVars, libVars>>

\* The manifest the copy command picks for the selected entry.
CopyManifest(sel) ==
    CASE sel.Type = Added ->
            IF sel.CurrentResource # Nil /\ sel.CurrentResource.Manifest # ""
            THEN sel.CurrentResource.Manifest ELSE ""
      [] sel.Type = Removed ->
            IF sel.BaselineResource # Nil /\ sel.BaselineResource.Manifest # ""
            THEN sel.BaselineResource.Manifest ELSE ""
      [] sel.Type = Modified ->
            IF sel.CurrentResource # Nil /\ sel.CurrentResource.Manifest # ""
            THEN sel.CurrentResource.Manifest
            ELSE IF sel.BaselineResource # Nil /\ sel.BaselineResource.Manifest # ""
            THEN sel.BaselineResource.Manifest ELSE ""
      [] OTHER -> ""

\* case key.Matches(msg, m.keyMap.CopyYAML); clipboard.WriteAll may fail
\* (the messages are written without their leading check / cross glyph)
KeyCopyYAML ==
    /\ running
    /\ IF state = "ShowingResourceDetail" /\ selectedResource # Nil
       THEN /\ HasRoom
            /\ \E copied \in BOOLEAN :
                 statusMessage' =
                     IF CopyManifest(selectedResource) # ""
                     THEN IF copied THEN "YAML copied to clipboard"
                          ELSE "Failed to copy to clipboard: "
                     ELSE "No YAML manifest available to copy"
            /\ pending' = Dispatch(pending, hideStatusMessageCmd)
       ELSE UNCHANGED <<statusMessage, pending>>
    /\ UNCHANGED <<state, baseline, current, diffResult, diffOutput, outputFormat,
                   resourceFilter, selectedResource, error, tableRows, tableCursor,
                   viewportContent, running, captures, viewKeys, cmpVars, libVars>>

\* case key.Matches(msg, m.keyMap.Help): m.showHelp = !m.showHelp
\* (the help footer is not part of the modelled state)
KeyHelp ==
    /\ running
    /\ ModelUnchanged
    /\ UNCHANGED <<pending, running, captures, viewKeys, cmpVars, libVars>>

\* A variant of the format switch that never reaches json.
NextFormatTwoWay(format) ==
    CASE format = "table" -> "yaml"
      [] format = "yaml"  -> "table"
      [] OTHER -> format

\* switch m.outputFormat of the ToggleView case
NextFormat(format) ==
    CASE format = "table" -> "yaml"
      [] format = "yaml"  -> "json"
      [] format = "json"  -> "table"
      [] OTHER -> format

\* case key.Matches(msg, m.keyMap.ToggleView) && m.state == stateShowingDiff
KeyToggleView ==
    /\ running
    /\ IF state = "ShowingDiff"
       THEN /\ HasRoom
            /\ ViewKey
            /\ outputFormat' = NextFormat(outputFormat)
            /\ pending' = Dispatch(pending,
                              updateDiffOutputCmd(NextFormat(outputFormat), diffResult))
       ELSE UNCHANGED <<outputFormat, pending, viewKeys>>
    /\ UNCHANGED <<state, baseline, current, diffResult, diffOutput, resourceFilter,
                   selectedResource, error, tableRows, tableCursor, viewportContent,
                   statusMessage, running, captures, cmpVars, libVars>>

FilterTypes == { "all", "added", "removed", "modified" }

\* case key.Matches(msg, m.keyMap.FilterAll / FilterAdded / FilterRemoved /
\* FilterModified) && m.state == stateShowingDiff
KeyFilter(f) ==
    /\ running
    /\ IF state = "ShowingDiff" /\ resourceFilter # f
       THEN /\ HasRoom
            /\ ViewKey
            /\ resourceFilter' = f
            /\ pending' = Dispatch(pending, updateTableWithFilterCmd(f, diffResult))
       ELSE UNCHANGED <<resourceFilter, pending, viewKeys>>
    /\ UNCHANGED <<state, baseline, current, diffResult, diffOutput, outputFormat,
                   selectedResource, error, tableRows, tableCursor, viewportContent,
                   statusMessage, running, captures, cmpVars, libVars>>

\* A variant of the Capture guard that also holds while the baseline is
\* being captured.
AcceptsCaptureWhileCapturing(s) == s \in { "Ready", "CapturingBaseline" }

\* key.Matches(msg, m.keyMap.Capture) && m.state == stateReady
AcceptsCapture(s) == s = "Ready"

\* key.Matches(msg, m.keyMap.Continue) && m.state == stateBaselineCaptured
AcceptsContinue(s) == s = "BaselineCaptured"

\* A variant of the Continue case of ShowingDiff that keeps the DiffResult.
OnContinueKeepingDiffResult ==
    [ baseline |-> current, current |-> Nil, diffResult |-> diffResult,
      diffOutput |-> Text("") ]

\* A variant of the Continue case of ShowingDiff that keeps the old baseline.
OnContinueKeepingBaseline ==
    [ baseline |-> baseline, current |-> Nil, diffResult |-> Nil,
      diffOutput |-> Text("") ]

\* case key.Matches(msg, m.keyMap.Continue) && m.state == stateShowingDiff:
\* the slots the case assigns before it starts the capture
OnContinueShowingDiff ==
    [ baseline |-> current, current |-> Nil, diffResult |-> Nil,
      diffOutput |-> Text("") ]

\* The "c" key: Capture in Ready, Continue in BaselineCaptured and ShowingDiff.
KeyCapture ==
    /\ running
    /\ IF AcceptsCapture(state)
       THEN /\ state' = "CapturingBaseline"
            /\ captures < MaxCaptures /\ captures' = captures + 1
            /\ \E r \in CaptureSnapshot :
                 pending' = Dispatch(pending, captureBaselineCmd(r) \o spinnerTick)
            /\ UNCHANGED <<baseline, current, diffResult, diffOutput>>
       ELSE IF AcceptsContinue(state)
       THEN /\ state' = "CapturingCurrent"
            /\ captures < MaxCaptures /\ captures' = captures + 1
            /\ \E r \in CaptureSnapshot :
                 pending' = Dispatch(pending, captureCurrentStateCmd(r) \o spinnerTick)
            /\ UNCHANGED <<baseline, current, diffResult, diffOutput>>
       ELSE IF state = "ShowingDiff"
       THEN /\ baseline' = OnContinueShowingDiff.baseline
            /\ current' = OnContinueShowingDiff.current
            /\ diffResult' = OnContinueShowingDiff.diffResult
            /\ diffOutput' = OnContinueShowingDiff.diffOutput
            /\ state' = "CapturingCurrent"
            /\ captures < MaxCaptures /\ captures' = captures + 1
            /\ \E r \in CaptureSnapshot :
                 pending' = Dispatch(pending, captureCurrentStateCmd(r) \o spinnerTick)
       ELSE UNCHANGED <<state, baseline, current, diffResult, diffOutput, pending,
                        captures>>
    /\ UNCHANGED <<outputFormat, resourceFilter, selectedResource, error, tableRows,
                   tableCursor, viewportContent, statusMessage, running, viewKeys,
                   cmpVars, libVars>>

\* A variant of the Back case that also drops the baseline when it leaves
\* ShowingDiff.
OnBackClearingBaseline ==
    CASE state = "BaselineCaptured" ->
            [ state |-> "Ready", baseline |-> Nil, current |-> current,
              diffResult |-> diffResult, diffOutput |-> diffOutput,
              selectedResource |-> selectedResource ]
      [] state = "ShowingDiff" ->
            [ state |-> "BaselineCaptured", baseline |-> Nil,
              current |-> Nil, diffResult |-> Nil,
              diffOutput |-> Text(""), selectedResource |-> selectedResource ]
      [] state = "ShowingResourceDetail" ->
            [ state |-> "ShowingDiff", baseline |-> baseline, current |-> current,
              diffResult |-> diffResult, diffOutput |-> diffOutput,
              selectedResource |-> Nil ]
      [] OTHER ->
            [ state |-> state, baseline |-> baseline, current |-> current,
              diffResult |-> diffResult, diffOutput |-> diffOutput,
              selectedResource |-> selectedResource ]

\* A variant of the Back case that leaves ShowingDiff without discarding the
\* current snapshot and the DiffResult.
OnBackKeepingDiff ==
    CASE state = "BaselineCaptured" ->
            [ state |-> "Ready", baseline |-> Nil, current |-> current,
              diffResult |-> diffResult, diffOutput |-> diffOutput,
              selectedResource |-> selectedResource ]
      [] state = "ShowingDiff" ->
            [ state |-> "BaselineCaptured", baseline |-> baseline,
              current |-> current, diffResult |-> diffResult,
              diffOutput |-> Text(""), selectedResource |-> selectedResource ]
      [] state = "ShowingResourceDetail" ->
            [ state |-> "ShowingDiff", baseline |-> baseline, current |-> current,
              diffResult |-> diffResult, diffOutput |-> diffOutput,
              selectedResource |-> Nil ]
      [] OTHER ->
            [ state |-> state, baseline |-> baseline, current |-> current,
              diffResult |-> diffResult, diffOutput |-> diffOutput,
              selectedResource |-> selectedResource ]

\* case key.Matches(msg, m.keyMap.Back): the fields the case leaves in the
\* model (switch m.state, with no case for the other states)
OnBack ==
    CASE state = "BaselineCaptured" ->
            [ state |-> "Ready", baseline |-> Nil, current |-> current,
              diffResult |-> diffResult, diffOutput |-> diffOutput,
              selectedResource |-> selectedResource ]
      [] state = "ShowingDiff" ->
            [ state |-> "BaselineCaptured", baseline |-> baseline,
              current |-> Nil, diffResult |-> Nil,
              diffOutput |-> Text(""), selectedResource |-> selectedResource ]
      [] state = "ShowingResourceDetail" ->
            [ state |-> "ShowingDiff", baseline |-> baseline, current |-> current,
              diffResult |-> diffResult, diffOutput |-> diffOutput,
              selectedResource |-> Nil ]
      [] OTHER ->
            [ state |-> state, baseline |-> baseline, current |-> current,
              diffResult |-> diffResult, diffOutput |-> diffOutput,
              selectedResource |-> selectedResource ]

\* case key.Matches(msg, m.keyMap.Back)
KeyBack ==
    /\ running
    /\ state' = OnBack.state
    /\ baseline' = OnBack.baseline
    /\ current' = OnBack.current
    /\ diffResult' = OnBack.diffResult
    /\ diffOutput' = OnBack.diffOutput
    /\ selectedResource' = OnBack.selectedResource
    /\ UNCHANGED <<outputFormat, resourceFilter, error, tableRows, tableCursor,
                   viewportContent, statusMessage, pending, running, captures,
                   viewKeys, cmpVars, libVars>>

\* case key.Matches(msg, m.keyMap.Enter) && m.state == stateShowingDiff &&
\* m.outputFormat == "table" (the table is always focused)
KeyEnter ==
    /\ running
    /\ LET selectedRow == SelectedRow(tableCursor, tableRows)
           resourceDiff == findSelectedResource(diffResult, selectedRow)
       IN  IF /\ state = "ShowingDiff" /\ outputFormat = "table"
              /\ Len(selectedRow) # 0
              /\ resourceDiff # Nil
           THEN /\ HasRoom
                /\ ViewKey
                /\ selectedResource' = resourceDiff
                /\ state' = "ShowingResourceDetail"
                /\ pending' = Dispatch(pending, loadResourceDetailCmd(resourceDiff))
           ELSE UNCHANGED <<selectedResource, state, pending, viewKeys>>
    /\ UNCHANGED <<baseline, current, diffResult, diffOutput, outputFormat,
                   resourceFilter, error, tableRows, tableCursor, viewportContent,
                   statusMessage, running, captures, cmpVars, libVars>>

\* The scrolling keys (Up, Down, PageUp, PageDown): in the table view of
\* ShowingDiff they move the cursor by n rows; elsewhere they scroll the
\* viewport, whose offset is not part of the modelled state.
KeyScroll(up, n) ==
    /\ running
    /\ IF state = "ShowingDiff" /\ outputFormat = "table"
       THEN /\ tableCursor' = IF up THEN MoveUp(tableCursor, tableRows, n)
                              ELSE MoveDown(tableCursor, tableRows, n)
            /\ IF tableCursor' # tableCursor THEN ViewKey ELSE UNCHANGED viewKeys
       ELSE UNCHANGED <<tableCursor, viewKeys>>
    /\ UNCHANGED <<state, baseline, current, diffResult, diffOutput, outputFormat,
                   resourceFilter, selectedResource, error, tableRows, viewportContent,
                   statusMessage, pending, running, captures, cmpVars, libVars>>

KeyUp == KeyScroll(TRUE, 1)
KeyDown == KeyScroll(FALSE, 1)
KeyPageUp == KeyScroll(TRUE, 10)
KeyPageDown == KeyScroll(FALSE, 10)

\* case tea.WindowSizeMsg: a new viewport holding m.diffOutput and a new,
\* empty table; the rows are restored in the table view of ShowingDiff
WindowSizeMsg ==
    /\ running
    /\ ViewKey
    /\ viewportContent' = diffOutput
    /\ IF state = "ShowingDiff" /\ diffResult # Nil /\ outputFormat = "table"
       THEN /\ tableRows' = buildTableRows(diffResult)
            /\ tableCursor' = SetRowsCursor(0, buildTableRows(diffResult))
       ELSE /\ tableRows' = <<>>
            /\ tableCursor' = 0
    /\ UNCHANGED <<state, baseline, current, diffResult, diffOutput, outputFormat,
                   resourceFilter, selectedResource, error, statusMessage, pending,
                   running, captures, cmpVars, libVars>>

\* case spinner.TickMsg: while capturing the spinner advances and schedules
\* its next tick; otherwise the tick is dropped
SpinnerTickMsg ==
    /\ running
    /\ \E msg \in InFlight("spinner.TickMsg") :
         pending' = IF Capturing
                    THEN Dispatch(Deliver(pending, msg), spinnerTick)
                    ELSE Deliver(pending, msg)
    /\ ModelUnchanged
    /\ UNCHANGED <<running, captures, viewKeys, cmpVars, libVars>>

\* A variant of the baselineCapturedMsg case that stores the result but leaves
\* the state as it is.
OnBaselineCapturedKeepingState(msg) ==
    [ state |-> state, baseline |-> msg.snapshot, error |-> error ]

\* A variant of the baselineCapturedMsg case without its error branch.
OnBaselineCapturedIgnoringError(msg) ==
    [ state |-> "BaselineCaptured", baseline |-> msg.snapshot, error |-> error ]

\* case baselineCapturedMsg: the fields the case assigns
OnBaselineCaptured(msg) ==
    [ state    |-> IF msg.err # Nil THEN "Error" ELSE "BaselineCaptured",
      baseline |-> msg.snapshot,
      error    |-> IF msg.err # Nil THEN msg.err ELSE error ]

BaselineCapturedMsg ==
    /\ running
    /\ \E msg \in InFlight("baselineCapturedMsg") :
         LET m == OnBaselineCaptured(msg) IN
         /\ state' = m.state
         /\ baseline' = m.baseline
         /\ error' = m.error
         /\ pending' = Deliver(pending, msg)
    /\ UNCHANGED <<current, diffResult, diffOutput, outputFormat, resourceFilter,
                   selectedResource, tableRows, tableCursor, viewportContent,
                   statusMessage, running, captures, viewKeys, cmpVars, libVars>>

\* The orders in which a range over snapshot.Resources may visit its keys
\* (no snapshot, no range).
MapOrders(snapshot) == IF snapshot = Nil THEN { <<>> } ELSE Orders(Keys(snapshot))

\* A variant of the currentStateCapturedMsg case that hands Compare its
\* arguments in the other order.
OnCurrentStateCapturedSwapped(msg, curOrd, baseOrd) ==
    IF msg.err # Nil
    THEN [ state |-> "Error", error |-> msg.err, baseline |-> baseline,
           current |-> current, diffResult |-> diffResult, cmds |-> NoMsgs ]
    ELSE LET call == CompareCall(msg.snapshot, baseline, baseOrd, curOrd) IN
         [ state |-> "ShowingDiff", error |-> error, baseline |-> call.current,
           current |-> call.baseline, diffResult |-> call.result,
           cmds |-> updateDiffOutputCmd(outputFormat, call.result) ]

\* case currentStateCapturedMsg: the fields the case assigns and the command
\* it returns; curOrd and baseOrd are the orders in which Compare ranges over
\* the two maps
OnCurrentStateCaptured(msg, curOrd, baseOrd) ==
    IF msg.err # Nil
    THEN [ state |-> "Error", error |-> msg.err, baseline |-> baseline,
           current |-> current, diffResult |-> diffResult, cmds |-> NoMsgs ]
    ELSE LET call == CompareCall(baseline, msg.snapshot, curOrd, baseOrd) IN
         [ state |-> "ShowingDiff", error |-> error, baseline |-> call.baseline,
           current |-> call.current, diffResult |-> call.result,
           cmds |-> updateDiffOutputCmd(outputFormat, call.result) ]

CurrentStateCapturedMsg ==
    /\ running
    /\ \E msg \in InFlight("currentStateCapturedMsg") :
         \E curOrd \in MapOrders(msg.snapshot), baseOrd \in MapOrders(baseline) :
            LET m == OnCurrentStateCaptured(msg, curOrd, baseOrd) IN
            /\ state' = m.state
            /\ error' = m.error
            /\ baseline' = m.baseline
            /\ current' = m.current
            /\ diffResult' = m.diffResult
            /\ pending' = Dispatch(Deliver(pending, msg), m.cmds)
    /\ UNCHANGED <<diffOutput, outputFormat, resourceFilter, selectedResource,
                   tableRows, tableCursor, viewportContent, statusMessage,
                   running, captures, viewKeys, cmpVars, libVars>>

\* case diffOutputUpdatedMsg
DiffOutputUpdatedMsg ==
    /\ running
    /\ \E msg \in InFlight("diffOutputUpdatedMsg") :
         /\ diffOutput' = msg.output
         /\ IF outputFormat = "table"
            THEN /\ pending' = Dispatch(Deliver(pending, msg),
                                   updateTableWithFilterCmd(resourceFilter, diffResult))
                 /\ UNCHANGED viewportContent
            ELSE /\ viewportContent' = msg.output
                 /\ pending' = Deliver(pending, msg)
    /\ UNCHANGED <<state, baseline, current, diffResult, outputFormat, resourceFilter,
                   selectedResource, error, tableRows, tableCursor, statusMessage, running, captures, viewKeys, cmpVars, libVars>>

\* case resourceDetailLoadedMsg
ResourceDetailLoadedMsg ==
    /\ running
    /\ \E msg \in InFlight("resourceDetailLoadedMsg") :
         /\ viewportContent' = msg.output
         /\ pending' = Deliver(pending, msg)
    /\ UNCHANGED <<state, baseline, current, diffResult, diffOutput, outputFormat,
                   resourceFilter, selectedResource, error, tableRows, tableCursor,
                   statusMessage, running, captures, viewKeys, cmpVars, libVars>>

\* case tableUpdatedMsg
TableUpdatedMsg ==
    /\ running
    /\ \E msg \in InFlight("tableUpdatedMsg") :
         /\ tableRows' = msg.rows
         /\ tableCursor' = SetRowsCursor(tableCursor, msg.rows)
         /\ pending' = Deliver(pending, msg)
    /\ UNCHANGED <<state, baseline, current, diffResult, diffOutput, outputFormat,
                   resourceFilter, selectedResource, error, viewportContent,
                   statusMessage, running, captures, viewKeys, cmpVars, libVars>>

\* case clearStatusMessageMsg
ClearStatusMessageMsg ==
    /\ running
    /\ \E msg \in InFlight("clearStatusMessageMsg") :
         /\ statusMessage' = ""
         /\ pending' = Deliver(pending, msg)
    /\ UNCHANGED <<state, baseline, current, diffResult, diffOutput, outputFormat,
                   resourceFilter, selectedResource, error, tableRows, tableCursor,
                   viewportContent, running, captures, viewKeys, cmpVars, libVars>>

\* func New(namespace, ignorePattern, kubeconfigPath string) Model
\* func main(): the start command runs the program and returns; main calls
\* os.Exit(1) when p.Run() or rootCmd.Execute() reports an error and otherwise
\* returns, which ends the process with code 0.  tea.Quit makes p.Run()
\* return without error.
main(runErr) == IF runErr THEN 1 ELSE 0

\* The exit code of a session the operator has ended with a quit key.
ExitCode == main(FALSE)

Init ==
    /\ TuiIdle
    /\ CompareIdle
    /\ LibIdle

Next ==
    \/ KeyForceQuit
    \/ KeyQuit
    \/ KeyEscape
    \/ KeyCopyYAML
    \/ KeyHelp
    \/ KeyToggleView
    \/ \E f \in FilterTypes : KeyFilter(f)
    \/ KeyCapture
    \/ KeyBack
    \/ KeyEnter
    \/ KeyUp
    \/ KeyDown
    \/ KeyPageUp
    \/ KeyPageDown
    \/ WindowSizeMsg
    \/ SpinnerTickMsg
    \/ BaselineCapturedMsg
    \/ CurrentStateCapturedMsg
    \/ DiffOutputUpdatedMsg
    \/ ResourceDetailLoadedMsg
    \/ TableUpdatedMsg
    \/ ClearStatusMessageMsg

Spec == Init /\ [][Next]_vars

\* The runtime hands every timer message to Update once its delay has passed
\* (tea.Tick), for as long as the loop runs.
SpecTimers == Spec /\ WF_vars(ClearStatusMessageMsg)

\* Every capture command that was dispatched returns its completion message
\* (captureBaselineCmd, captureCurrentStateCmd), and the loop hands it to
\* Update for as long as it runs.
SpecCaptures == Spec /\ WF_vars(BaselineCapturedMsg \/ CurrentStateCapturedMsg)

(***************************************************************************)
(* snapshot.CaptureSnapshot, call by call, inside a capture command of the *)
(* TUI (SpecCapture).                                                      *)
(***************************************************************************)
\* CalculateSpecHash keeps this many bytes of the JSON of a spec
HashPrefixLen == 20

\* A spec: whether json.Marshal accepts it, and then its JSON with its length
\* in bytes and its first HashPrefixLen bytes (a string cannot be cut here).
ReplicasSpec ==
    [ marshals |-> TRUE, json |-> "{\"replicas\":1}", len |-> 14,
      prefix |-> "{\"replicas\":1}" ]
PausedSpec ==
    [ marshals |-> TRUE, json |-> "{\"paused\":false,\"replicas\":1}", len |-> 29,
      prefix |-> "{\"paused\":false,\"rep" ]
\* PausedSpec with another replica count: the two differ at byte 28.
ScaledSpec ==
    [ marshals |-> TRUE, json |-> "{\"paused\":false,\"replicas\":2}", len |-> 29,
      prefix |-> "{\"paused\":false,\"rep" ]
UnmarshalableSpec == [ marshals |-> FALSE, json |-> "", len |-> 0, prefix |-> "" ]

\* func CalculateSpecHash(spec interface{}) (string, error)   (package k8s)
CalculateSpecHash(spec) ==
    IF ~spec.marshals
    THEN [ hash |-> "", err |-> [ msg |-> "json: unsupported value" ] ]
    ELSE IF spec.len > HashPrefixLen
    THEN [ hash |-> spec.prefix \o "...", err |-> Nil ]
    ELSE [ hash |-> spec.json, err |-> Nil ]

\* A k8s.Resource as ListResources builds it.
Resource(apiVersion, kind, ns, name, rv, spec) ==
    [ ApiVersion |-> apiVersion,
      Kind       |-> kind,
      Metadata   |-> [ Name              |-> name,
                       Namespace         |-> ns,
                       UID               |-> "uid-" \o name,
                       ResourceVersion   |-> rv,
                       CreationTimestamp |-> "2024-01-01 00:00:00 +0000 UTC" ],
      Spec       |-> spec ]

\* gvk := fmt.Sprintf("%s/%s", resource.ApiVersion, resource.Kind)
GVK(resource) == resource.ApiVersion \o "/" \o resource.Kind

\* A variant of the record construction that leaves the hash empty when it
\* cannot be computed.
ResourceInfoOfNoFallback(resource) ==
    LET gvk == GVK(resource)
        id  == [ gvk |-> gvk, ns |-> resource.Metadata.Namespace,
                 name |-> resource.Metadata.Name ]
        marshalled == resource.Spec = Nil \/ resource.Spec.marshals
    IN  [ GroupVersionKind  |-> gvk,
          Namespace         |-> resource.Metadata.Namespace,
          Name              |-> resource.Metadata.Name,
          UID               |-> resource.Metadata.UID,
          ResourceVersion   |-> resource.Metadata.ResourceVersion,
          CreationTimestamp |-> resource.Metadata.CreationTimestamp,
          SpecHash          |-> IF resource.Spec # Nil
                                THEN CalculateSpecHash(resource.Spec).hash
                                ELSE resource.Metadata.ResourceVersion,
          Manifest          |-> IF marshalled
                                THEN ManifestText(id, resource.Metadata.ResourceVersion,
                                                  IF resource.Spec = Nil THEN ""
                                                  ELSE resource.Spec.json)
                                ELSE "" ]

\* The body of the loop over the resources of one type (app.go:1275-1312):
\* the ResourceInfo stored for a resource.  json.Marshal(resource) fails when
\* its spec cannot be marshalled, and then the manifest stays empty.
ResourceInfoOf(resource) ==
    LET gvk == GVK(resource)
        id  == [ gvk |-> gvk, ns |-> resource.Metadata.Namespace,
                 name |-> resource.Metadata.Name ]
        marshalled == resource.Spec = Nil \/ resource.Spec.marshals
    IN  [ GroupVersionKind  |-> gvk,
          Namespace         |-> resource.Metadata.Namespace,
          Name              |-> resource.Metadata.Name,
          UID               |-> resource.Metadata.UID,
          ResourceVersion   |-> resource.Metadata.ResourceVersion,
          CreationTimestamp |-> resource.Metadata.CreationTimestamp,
          SpecHash          |-> IF resource.Spec # Nil
                                   /\ CalculateSpecHash(resource.Spec).err = Nil
                                THEN CalculateSpecHash(resource.Spec).hash
                                ELSE resource.Metadata.ResourceVersion,
          Manifest          |-> IF marshalled
                                THEN ManifestText(id, resource.Metadata.ResourceVersion,
                                                  IF resource.Spec = Nil THEN ""
                                                  ELSE resource.Spec.json)
                                ELSE "" ]

\* key := fmt.Sprintf("%s|%s|%s", gvk, resource.Metadata.Namespace, resource.Metadata.Name)
KeyOfResource(resource) ==
    ResourceKey(GVK(resource), resource.Metadata.Namespace, resource.Metadata.Name)

\* What the API server serves: per group version its resources, and whether
\* "list" is among their verbs.  apps/v1 serves two listable resources of
\* kind Deployment, so that type is discovered, and listed, twice.
APIGroups ==
    << [ GroupVersion |-> "v1",
         APIResources |-> << [ Kind |-> "Pod",       list |-> TRUE ],
                             [ Kind |-> "ConfigMap", list |-> TRUE ],
                             [ Kind |-> "Secret",    list |-> TRUE ],
                             [ Kind |-> "Binding",   list |-> FALSE ] >> ],
       [ GroupVersion |-> "apps/v1",
         APIResources |-> << [ Kind |-> "Deployment", list |-> TRUE ],
                             [ Kind |-> "Deployment", list |-> TRUE ] >> ] >>

\* RECURSIVE helper: the groups at the positions outside `failed`, in order.
RECURSIVE GroupsExcept(_, _)
GroupsExcept(failed, i) ==
    IF i > Len(APIGroups) THEN <<>>
    ELSE (IF i \in failed THEN <<>> ELSE << APIGroups[i] >>) \o GroupsExcept(failed, i + 1)

\* c.discoveryClient.ServerGroupsAndResources(): it fails outright, or it
\* returns the resources of the groups it could reach together with an
\* ErrGroupDiscoveryFailed naming the others (nil when there are none).
ServerGroupsAndResources ==
    { [ apiResources |-> <<>>,
        err |-> [ msg |-> "couldn't get current server API group list",
                  groupDiscoveryFailed |-> FALSE ] ] }
    \cup { [ apiResources |-> GroupsExcept(failed, 1),
             err |-> IF failed = {} THEN Nil
                     ELSE [ msg |-> "unable to retrieve the complete list of server APIs",
                            groupDiscoveryFailed |-> TRUE ] ]
           : failed \in SUBSET (1..Len(APIGroups)) }

\* discovery.IsGroupDiscoveryFailedError(err)
IsGroupDiscoveryFailedError(err) == err # Nil /\ err.groupDiscoveryFailed

\* The inner loop of DiscoverResources over resourceList.APIResources.
RECURSIVE TypesOfGroup(_, _, _)
TypesOfGroup(filter, gv, resources) ==
    IF resources = <<>> THEN <<>>
    ELSE LET r == Head(resources)
             resourceType == gv \o "/" \o r.Kind
         IN  (IF ~r.list THEN <<>>
              ELSE IF filter # Nil /\ ShouldExclude(filter, resourceType).returned THEN <<>>
              ELSE << resourceType >>)
             \o TypesOfGroup(filter, gv, Tail(resources))

\* The outer loop of DiscoverResources over apiResources.
RECURSIVE TypesOfGroups(_, _)
TypesOfGroups(filter, groups) ==
    IF groups = <<>> THEN <<>>
    ELSE TypesOfGroup(filter, Head(groups).GroupVersion, Head(groups).APIResources)
             \o TypesOfGroups(filter, Tail(groups))

\* A variant of DiscoverResources that continues after every discovery error.
DiscoverResourcesLenient(filter, served) ==
    [ resourceTypes |-> TypesOfGroups(filter, served.apiResources), err |-> Nil ]

\* func (c *Client) DiscoverResources(resourceFilter *filter.ResourceFilter) ([]string, error)
\* for an outcome `served` of ServerGroupsAndResources
DiscoverResources(filter, served) ==
    IF served.err # Nil /\ ~IsGroupDiscoveryFailedError(served.err)
    THEN [ resourceTypes |-> <<>>,
           err |-> [ msg |-> "failed to discover API resources" ] ]
    ELSE [ resourceTypes |-> TypesOfGroups(filter, served.apiResources), err |-> Nil ]

\* What the cluster may hold of each type when it is listed.
ClusterResources(resourceType) ==
    CASE resourceType = "v1/ConfigMap" ->
           { {}, { Resource("v1", "ConfigMap", "myapp", "cfg", "1", Nil) } }
      [] resourceType = "v1/Secret" ->
           { { Resource("v1", "Secret", "myapp", "tls", "1", Nil) } }
      [] resourceType = "apps/v1/Deployment" ->
           { { Resource("apps/v1", "Deployment", "myapp", "x", "1", ReplicasSpec) },
             { Resource("apps/v1", "Deployment", "myapp", "x", "2", PausedSpec) },
             { Resource("apps/v1", "Deployment", "myapp", "x", "3", UnmarshalableSpec) },
             { Resource("apps/v1", "Deployment", "myapp", "x", "1", ReplicasSpec),
               Resource("apps/v1", "Deployment", "myapp", "y", "7", UnmarshalableSpec) },
             { Resource("apps/v1", "Deployment", "myapp", "x", "2", PausedSpec),
               Resource("apps/v1", "Deployment", "myapp", "y", "2", ScaledSpec) } }
      [] resourceType = "v1/Pod" ->
           { { Resource("v1", "Pod", "myapp", "p", "1", ReplicasSpec) } }
      [] OTHER -> { {} }

\* func (c *Client) ListResources(resourceType, namespace string) ([]Resource, error):
\* the resources of the type, or an error.
ListResources(resourceType) ==
    { [ resources |-> rs, err |-> Nil ] : rs \in ClusterResources(resourceType) }
    \cup { [ resources |-> {}, err |-> [ msg |-> "failed to list resources" ] ] }

\* A variant of the listing loop that keeps the record already stored under a
\* key.
AddListedKeepingFirst(snapshot, listing) ==
    IF listing.err # Nil
    THEN snapshot
    ELSE [ snapshot EXCEPT !.Resources =
             [ k \in DOMAIN @ \cup { KeyOfResource(r) : r \in listing.resources } |->
                 IF k \in DOMAIN @ THEN @[k]
                 ELSE ResourceInfoOf(CHOOSE r \in listing.resources : KeyOfResource(r) = k) ] ]

\* A variant of the listing loop that starts the snapshot afresh when a type
\* fails to list.
AddListedOrReset(snapshot, listing) ==
    IF listing.err # Nil
    THEN [ snapshot EXCEPT !.Resources = <<>> ]
    ELSE [ snapshot EXCEPT !.Resources =
             [ k \in DOMAIN @ \cup { KeyOfResource(r) : r \in listing.resources } |->
                 IF \E r \in listing.resources : KeyOfResource(r) = k
                 THEN ResourceInfoOf(CHOOSE r \in listing.resources : KeyOfResource(r) = k)
                 ELSE @[k] ] ]

\* One pass of the loop over resourceTypes (app.go:1267-1313): a type that
\* fails to list is skipped, the resources of the others are stored.
AddListed(snapshot, listing) ==
    IF listing.err # Nil
    THEN snapshot
    ELSE [ snapshot EXCEPT !.Resources =
             [ k \in DOMAIN @ \cup { KeyOfResource(r) : r \in listing.resources } |->
                 IF \E r \in listing.resources : KeyOfResource(r) = k
                 THEN ResourceInfoOf(CHOOSE r \in listing.resources : KeyOfResource(r) = k)
                 ELSE @[k] ] ]

\* A variant of the filter construction that drops the error of Compile.
CaptureFilterUnchecked(ignoreKindRegex) ==
    LET noisy == WithNoisy(NewResourceFilter)
        built == IF ignoreKindRegex # "" THEN WithExcludes(noisy, << ignoreKindRegex >>)
                 ELSE noisy
    IN  [ filter |-> Compile(built).filter, err |-> Nil ]

\* resourceFilter := filter.NewResourceFilter().WithNoisy(); WithExcludes when
\* ignoreKindRegex is not empty; resourceFilter.Compile()   (app.go:1243-1253)
CaptureFilter(ignoreKindRegex) ==
    LET noisy == WithNoisy(NewResourceFilter)
        built == IF ignoreKindRegex # "" THEN WithExcludes(noisy, << ignoreKindRegex >>)
                 ELSE noisy
    IN  Compile(built)

\* return nil, fmt.Errorf(...)
CaptureFailed(text) == [ snapshot |-> Nil, err |-> [ msg |-> text ] ]

\* The start command (part_000:149-177): with --exclude-noisy (the default)
\* finalIgnorePattern stays empty, otherwise it is the --ignore pattern; it
\* becomes m.ignorePattern, the ignoreKindRegex of every capture.
finalIgnorePattern(ignorePattern, useDefaultExclusions) ==
    IF useDefaultExclusions THEN "" ELSE ignorePattern

\* The TUI with one capture command running: "c" was pressed in Ready, or in
\* BaselineCaptured with a baseline of an empty cluster.
InitCapture ==
    /\ state \in { "CapturingBaseline", "CapturingCurrent" }
    /\ baseline = IF state = "CapturingCurrent"
                  THEN Snapshot(CaptureTime, Namespace, <<>>) ELSE Nil
    /\ captures = IF state = "CapturingCurrent" THEN 2 ELSE 1
    /\ current = Nil /\ diffResult = Nil
    /\ diffOutput = Text("") /\ outputFormat = "table" /\ resourceFilter = "all"
    /\ selectedResource = Nil /\ error = Nil
    /\ tableRows = <<>> /\ tableCursor = 0
    /\ viewportContent = Text("") /\ statusMessage = ""
    /\ pending = Dispatch(EmptyBag, spinnerTick) /\ running = TRUE
    /\ viewKeys = 0
    /\ CompareIdle
    /\ DialogIdle
    /\ FileIdle
    /\ FilterIdle
    /\ startFlags \in [ ignore : { "" } \cup UserPatterns, excludeNoisy : BOOLEAN ]
    /\ capIgnore = finalIgnorePattern(startFlags.ignore, startFlags.excludeNoisy)
    /\ capPc = "NewClient"
    /\ capSnapshot = Nil
    /\ capTypes = <<>>
    /\ capCalls = <<>>
    /\ capResult = Nil

\* client, err := internal_k8s.NewClient(kubeconfigPath)
CaptureNewClient ==
    /\ capPc = "NewClient"
    /\ \E ok \in BOOLEAN :
         /\ capCalls' = Append(capCalls, [ call |-> "NewClient", ok |-> ok ])
         /\ IF ok
            THEN capPc' = "Compile" /\ UNCHANGED capResult
            ELSE /\ capPc' = "Return"
                 /\ capResult' = CaptureFailed("failed to create Kubernetes client")
    /\ UNCHANGED <<startFlags, capIgnore, capSnapshot, capTypes, tuiVars, cmpVars, dialogVars, fileVars, filterVars>>

\* the filter is built and compiled; on success the empty snapshot is created
CaptureCompile ==
    /\ capPc = "Compile"
    /\ LET call == CaptureFilter(capIgnore) IN
       /\ rf' = [ filter |-> call.filter, compiled |-> call.err = Nil ]
       /\ compileErr' = call.err
       /\ IF call.err # Nil
          THEN /\ capPc' = "Return"
               /\ capResult' = CaptureFailed("failed to compile resource filter")
               /\ UNCHANGED capSnapshot
          ELSE /\ capPc' = "Discover"
               /\ capSnapshot' = Snapshot(CaptureTime, Namespace, <<>>)
               /\ UNCHANGED capResult
    /\ UNCHANGED <<startFlags, capIgnore, capTypes, capCalls, excluded, tuiVars, cmpVars, dialogVars, fileVars>>

\* resourceTypes, err := client.DiscoverResources(resourceFilter)
CaptureDiscover ==
    /\ capPc = "Discover"
    /\ \E served \in ServerGroupsAndResources :
         LET call == DiscoverResources(rf.filter, served) IN
         /\ capCalls' = Append(capCalls, [ call |-> "DiscoverResources",
                                           served |-> served, err |-> call.err ])
         /\ IF call.err # Nil
            THEN /\ capPc' = "Return"
                 /\ capResult' = CaptureFailed("failed to discover API resources")
                 /\ UNCHANGED capTypes
            ELSE /\ capPc' = "List"
                 /\ capTypes' = call.resourceTypes
                 /\ UNCHANGED capResult
    /\ UNCHANGED <<startFlags, capIgnore, capSnapshot, tuiVars, cmpVars, dialogVars, fileVars, filterVars>>

\* one pass of "for _, resourceType := range resourceTypes", and after the
\* last one "return snapshot, nil"
CaptureList ==
    /\ capPc = "List"
    /\ IF capTypes = <<>>
       THEN /\ capPc' = "Return"
            /\ capResult' = [ snapshot |-> capSnapshot, err |-> Nil ]
            /\ UNCHANGED <<capSnapshot, capTypes, capCalls>>
       ELSE /\ \E listing \in ListResources(Head(capTypes)) :
                 /\ capSnapshot' = AddListed(capSnapshot, listing)
                 /\ capCalls' = Append(capCalls, [ call |-> "ListResources",
                                                   resourceType |-> Head(capTypes),
                                                   resources |-> listing.resources,
                                                   err |-> listing.err ])
            /\ capTypes' = Tail(capTypes)
            /\ UNCHANGED <<capPc, capResult>>
    /\ UNCHANGED <<startFlags, capIgnore, tuiVars, cmpVars, dialogVars, fileVars, filterVars>>

\* The command returns baselineCapturedMsg{snapshot, err} or
\* currentStateCapturedMsg{snapshot, err}   (app.go:1028-1040)
CaptureCompleted ==
    /\ capPc = "Return"
    /\ capPc' = "done"
    /\ pending' = Dispatch(pending, IF state = "CapturingBaseline"
                                    THEN captureBaselineCmd(capResult)
                                    ELSE captureCurrentStateCmd(capResult))
    /\ UNCHANGED <<state, baseline, current, diffResult, diffOutput, outputFormat,
                   resourceFilter, selectedResource, error, tableRows, tableCursor,
                   viewportContent, statusMessage, running, captures, viewKeys,
                   startFlags, capIgnore, capSnapshot, capTypes, capCalls, capResult,
                   cmpVars, dialogVars, fileVars, filterVars>>

NextCapture ==
    \/ CaptureNewClient
    \/ CaptureCompile
    \/ CaptureDiscover
    \/ CaptureList
    \/ CaptureCompleted
    \/ BaselineCapturedMsg
    \/ CurrentStateCapturedMsg

SpecCapture == InitCapture /\ [][NextCapture]_vars

(***************************************************************************)
(* Claims about Compare (checked under SpecCompare).                       *)
(***************************************************************************)
CompareDone == cmpPc = "done"

AllEntries(d) == d.Added \o d.Removed \o d.Modified

\* Number of entries of the three sequences that carry key k.
Occurrences(d, k) ==
    Cardinality({ i \in 1..Len(AllEntries(d)) : EntryKey(AllEntries(d)[i]) = k })

\* C1: Compare(A, B) places every key of A.resources \cup B.resources in
\* exactly one of {unchanged (emitted nowhere), Added, Removed, Modified}:
\* the three sequences are pairwise disjoint by key, no key occurs twice in
\* one sequence, and every emitted key is a key of A or of B.
C1_Partition ==
    CompareDone =>
        /\ \A k \in Keys(cmpBaseline) \cup Keys(cmpCurrent) :
               Occurrences(cmpResult, k) <= 1
        /\ EntryKeys(AllEntries(cmpResult)) \subseteq
               Keys(cmpBaseline) \cup Keys(cmpCurrent)
        /\ EntryKeys(cmpResult.Added) \cap EntryKeys(cmpResult.Removed) = {}
        /\ EntryKeys(cmpResult.Added) \cap EntryKeys(cmpResult.Modified) = {}
        /\ EntryKeys(cmpResult.Removed) \cap EntryKeys(cmpResult.Modified) = {}
        /\ Cardinality(EntryKeys(cmpResult.Added)) = Len(cmpResult.Added)
        /\ Cardinality(EntryKeys(cmpResult.Removed)) = Len(cmpResult.Removed)
        /\ Cardinality(EntryKeys(cmpResult.Modified)) = Len(cmpResult.Modified)

\* C1 witness: a compared pair with a modified key and a removed or added key.
C1_Witness ==
    /\ CompareDone
    /\ Len(cmpResult.Modified) = 1
    /\ Len(cmpResult.Added) + Len(cmpResult.Removed) = 1
    /\ Keys(cmpBaseline) # Keys(cmpCurrent)

\* C2: for a key present in both snapshots Compare emits a Modified entry iff
\* the resourceVersion differs or the specHash differs (either alone is
\* enough); a key with equal version and equal hash is in none of the three
\* sequences.
C2_ModifiedIff ==
    CompareDone =>
        \A k \in Keys(cmpBaseline) \cap Keys(cmpCurrent) :
            LET b == cmpBaseline.Resources[k]
                c == cmpCurrent.Resources[k]
                differs == \/ b.ResourceVersion # c.ResourceVersion
                           \/ b.SpecHash # c.SpecHash
            IN  /\ (k \in EntryKeys(cmpResult.Modified)) <=> differs
                /\ ~differs => Occurrences(cmpResult, k) = 0
                /\ k \notin EntryKeys(cmpResult.Added)
                /\ k \notin EntryKeys(cmpResult.Removed)

\* C2 witness: one key modified by its hash alone, another by its version alone.
C2_Witness ==
    /\ CompareDone
    /\ \E k1, k2 \in Keys(cmpBaseline) \cap Keys(cmpCurrent) :
         /\ cmpBaseline.Resources[k1].ResourceVersion = cmpCurrent.Resources[k1].ResourceVersion
         /\ cmpBaseline.Resources[k1].SpecHash # cmpCurrent.Resources[k1].SpecHash
         /\ cmpBaseline.Resources[k2].ResourceVersion # cmpCurrent.Resources[k2].ResourceVersion
         /\ cmpBaseline.Resources[k2].SpecHash = cmpCurrent.Resources[k2].SpecHash
         /\ {k1, k2} \subseteq EntryKeys(cmpResult.Modified)

\* C3: Compare(S, S) yields a DiffResult whose three sequences are empty.
C3_SelfCompareEmpty ==
    (CompareDone /\ cmpBaseline = cmpCurrent) =>
        /\ IsEmpty(cmpResult)
        /\ cmpResult.Added = <<>> /\ cmpResult.Removed = <<>> /\ cmpResult.Modified = <<>>

\* C3 witness: a snapshot holding resources compared with itself.
C3_Witness ==
    /\ CompareDone
    /\ cmpBaseline = cmpCurrent
    /\ Cardinality(Keys(cmpBaseline)) = MaxKeys
    /\ IsEmpty(cmpResult)

\* C4: the keys of the Added entries are exactly the keys of current absent
\* from baseline, and the keys of the Removed entries are exactly the keys of
\* baseline absent from current.
C4_AddedRemovedKeys ==
    CompareDone =>
        /\ EntryKeys(cmpResult.Added) = Keys(cmpCurrent) \ Keys(cmpBaseline)
        /\ EntryKeys(cmpResult.Removed) = Keys(cmpBaseline) \ Keys(cmpCurrent)

\* C4 witness: one key only in current and one key only in baseline.
C4_Witness ==
    /\ CompareDone
    /\ Len(cmpResult.Added) = 1 /\ Len(cmpResult.Removed) = 1
    /\ Keys(cmpCurrent) \ Keys(cmpBaseline) # {}
    /\ Keys(cmpBaseline) \ Keys(cmpCurrent) # {}

\* C5: an Added entry carries only the current record, a Removed entry only
\* the baseline record, a Modified entry both; the carried records equal the
\* records stored under the entry's key in the respective snapshot, and a
\* Modified entry's old version/hash are the baseline record's and its new
\* version/hash the current record's.
C5_EntryInvariant ==
    CompareDone =>
        /\ \A i \in 1..Len(cmpResult.Added) :
             LET e == cmpResult.Added[i] IN
             /\ e.Type = Added
             /\ e.BaselineResource = Nil
             /\ e.CurrentResource # Nil
             /\ EntryKey(e) \in Keys(cmpCurrent)
             /\ e.CurrentResource = cmpCurrent.Resources[EntryKey(e)]
        /\ \A i \in 1..Len(cmpResult.Removed) :
             LET e == cmpResult.Removed[i] IN
             /\ e.Type = Removed
             /\ e.CurrentResource = Nil
             /\ e.BaselineResource # Nil
             /\ EntryKey(e) \in Keys(cmpBaseline)
             /\ e.BaselineResource = cmpBaseline.Resources[EntryKey(e)]
        /\ \A i \in 1..Len(cmpResult.Modified) :
             LET e == cmpResult.Modified[i] IN
             /\ e.Type = Modified
             /\ e.BaselineResource # Nil
             /\ e.CurrentResource # Nil
             /\ EntryKey(e) \in Keys(cmpBaseline) \cap Keys(cmpCurrent)
             /\ e.BaselineResource = cmpBaseline.Resources[EntryKey(e)]
             /\ e.CurrentResource = cmpCurrent.Resources[EntryKey(e)]
             /\ e.OldResourceVersion = cmpBaseline.Resources[EntryKey(e)].ResourceVersion
             /\ e.OldSpecHash = cmpBaseline.Resources[EntryKey(e)].SpecHash
             /\ e.NewResourceVersion = cmpCurrent.Resources[EntryKey(e)].ResourceVersion
             /\ e.NewSpecHash = cmpCurrent.Resources[EntryKey(e)].SpecHash

\* C5 witness: a Modified entry whose version and hash both changed.
C5_Witness ==
    /\ CompareDone
    /\ \E i \in 1..Len(cmpResult.Modified) :
         /\ cmpResult.Modified[i].OldResourceVersion # cmpResult.Modified[i].NewResourceVersion
         /\ cmpResult.Modified[i].OldSpecHash # cmpResult.Modified[i].NewSpecHash
    /\ Len(cmpResult.Added) + Len(cmpResult.Removed) > 0

CaptureTypes == { "baselineCapturedMsg", "currentStateCapturedMsg" }

\* Number of capture completions in flight in a bag of messages.
Outstanding(bag) ==
    BagCardinality([ m \in { x \in BagToSet(bag) : x.type \in CaptureTypes } |-> bag[m] ])

\* The messages of a type that this step hands to Update.
Delivered(type) ==
    { m \in InFlight(type) : CopiesIn(m, pending') < CopiesIn(m, pending) }

\* A snapshot a successful capture returned.
Captured(s) == \E r \in CaptureSnapshot : r.err = Nil /\ r.snapshot = s

\* C7: at most one capture is outstanding, and only while the state is
\* CapturingBaseline or CapturingCurrent: a baseline completion is in flight
\* only in CapturingBaseline and a current completion only in
\* CapturingCurrent, so each is processed in its own capturing state; and no
\* step taken in a capturing state dispatches a capture.
C7_OneCaptureOutstanding ==
    /\ [](/\ Outstanding(pending) <= 1
          /\ Outstanding(pending) > 0 => Capturing
          /\ InFlight("baselineCapturedMsg") # {} => state = "CapturingBaseline"
          /\ InFlight("currentStateCapturedMsg") # {} => state = "CapturingCurrent")
    /\ [][/\ Capturing => /\ captures' = captures
                          /\ Outstanding(pending') <= Outstanding(pending)
          /\ Delivered("baselineCapturedMsg") # {} => state = "CapturingBaseline"
          /\ Delivered("currentStateCapturedMsg") # {} => state = "CapturingCurrent"]_vars

\* The third capture of a session (a continue from ShowingDiff) is outstanding.
C7_Witness ==
    /\ state = "CapturingCurrent"
    /\ captures = 3
    /\ Outstanding(pending) = 1
    /\ baseline # Nil

\* C8: the machine starts in Ready; the capture key in Ready moves to
\* CapturingBaseline and the continue key in BaselineCaptured moves to
\* CapturingCurrent, each putting exactly one capture in flight; and
\* ShowingDiff is entered from outside the diff views only by processing a
\* successful current completion while a successfully captured baseline is
\* held, so that in ShowingDiff both slots hold captured snapshots.
C8_CaptureTransitions ==
    /\ state = "Ready"
    /\ [][/\ (state = "Ready" /\ captures' # captures) =>
                /\ state' = "CapturingBaseline"
                /\ Outstanding(pending) = 0 /\ Outstanding(pending') = 1
                /\ InFlight("baselineCapturedMsg")' # {}
          /\ (state = "BaselineCaptured" /\ captures' # captures) =>
                /\ state' = "CapturingCurrent"
                /\ Outstanding(pending) = 0 /\ Outstanding(pending') = 1
                /\ InFlight("currentStateCapturedMsg")' # {}
          /\ (state = "Ready" /\ state' # "Ready") => captures' = captures + 1
          /\ (state = "BaselineCaptured" /\ state' = "CapturingCurrent") =>
                captures' = captures + 1
          /\ (state' = "ShowingDiff"
                /\ state \notin { "ShowingDiff", "ShowingResourceDetail" }) =>
                /\ state = "CapturingCurrent"
                /\ Captured(baseline)
                /\ \E msg \in Delivered("currentStateCapturedMsg") :
                      msg.err = Nil /\ Captured(msg.snapshot) /\ current' = msg.snapshot]_vars
    /\ [](state \in { "ShowingDiff", "ShowingResourceDetail" } =>
              Captured(baseline) /\ Captured(current) /\ captures >= 2)

\* The diff of the first two captures of a session is shown.
C8_Witness ==
    /\ state = "ShowingDiff"
    /\ captures = 2
    /\ Captured(baseline) /\ Captured(current)

\* C9: when a baseline completion is processed in CapturingBaseline, on
\* success the state becomes BaselineCaptured and the baseline is the captured
\* snapshot; on failure the state becomes Error, the error of the completion
\* is retained and no baseline is stored.
C9_BaselineCompletion ==
    [][\A msg \in Delivered("baselineCapturedMsg") :
          state = "CapturingBaseline" =>
              IF msg.err = Nil
              THEN /\ state' = "BaselineCaptured"
                   /\ baseline' = msg.snapshot
                   /\ Captured(baseline')
              ELSE /\ state' = "Error"
                   /\ error' = msg.err
                   /\ baseline' = Nil]_vars

\* The baseline capture failed: Error, with the error and without a baseline.
C9_Witness ==
    /\ state = "Error"
    /\ captures = 1
    /\ error \in CaptureErrors
    /\ baseline = Nil

\* C10: when a current completion is processed in CapturingCurrent, on
\* success the state becomes ShowingDiff, the current slot is the captured
\* snapshot and, in the same step, the DiffResult is Compare(baseline,
\* current); on failure the state becomes Error, the error is retained, the
\* baseline is kept, and current and DiffResult are absent.
C10_CurrentCompletion ==
    [][\A msg \in Delivered("currentStateCapturedMsg") :
          state = "CapturingCurrent" =>
              IF msg.err = Nil
              THEN /\ state' = "ShowingDiff"
                   /\ current' = msg.snapshot
                   /\ baseline' = baseline
                   /\ \E curOrd \in MapOrders(current'), baseOrd \in MapOrders(baseline') :
                         diffResult' = Compare(baseline', current', curOrd, baseOrd)
              ELSE /\ state' = "Error"
                   /\ error' = msg.err
                   /\ baseline' = baseline /\ Captured(baseline)
                   /\ current' = Nil
                   /\ diffResult' = Nil]_vars

\* A current capture found the cluster changed: the diff shown is not empty.
C10_Witness ==
    /\ state = "ShowingDiff"
    /\ diffResult # Nil
    /\ ~IsEmpty(diffResult)
    /\ Len(diffResult.Modified) > 0
    /\ current # baseline


(***************************************************************************)
(* Claims about the keys of the state machine (checked under Spec).        *)
(***************************************************************************)
\* C11: the continue key in ShowingDiff moves to CapturingCurrent with the
\* previous current snapshot as the baseline, the current slot and the
\* DiffResult emptied and the rendered text reset, and puts exactly one
\* capture in flight; the baseline is not touched while that capture is
\* outstanding, and when it succeeds the new DiffResult is
\* Compare(previous current, captured snapshot).
C11_ContinueChain ==
    [][/\ (state = "ShowingDiff" /\ captures' # captures) =>
             /\ state' = "CapturingCurrent"
             /\ baseline' = current
             /\ current' = Nil
             /\ diffResult' = Nil
             /\ diffOutput' = Text("")
             /\ Outstanding(pending) = 0 /\ Outstanding(pending') = 1
             /\ InFlight("currentStateCapturedMsg")' # {}
       /\ (state = "ShowingDiff" /\ state' = "CapturingCurrent") =>
             captures' = captures + 1
       /\ (state = "CapturingCurrent" /\ state' = "CapturingCurrent") =>
             baseline' = baseline
       /\ (state = "CapturingCurrent" /\ state' = "ShowingDiff") =>
             \E msg \in Delivered("currentStateCapturedMsg") :
                \E curOrd \in MapOrders(msg.snapshot), baseOrd \in MapOrders(baseline) :
                   diffResult' = Compare(baseline, msg.snapshot, curOrd, baseOrd)]_vars

\* The diff of a chained capture is shown: the second capture against the third.
C11_Witness ==
    /\ state = "ShowingDiff"
    /\ captures = 3
    /\ diffResult # Nil /\ ~IsEmpty(diffResult)
    /\ Captured(baseline) /\ Captured(current)


\* C12: every step that leaves ShowingResourceDetail (back, escape or q)
\* goes to ShowingDiff with the selection cleared, so a selected entry is held
\* only while the state is ShowingResourceDetail.
C12_SelectionOnlyInDetail ==
    /\ [][(state = "ShowingResourceDetail" /\ state' # state) =>
             (state' = "ShowingDiff" /\ selectedResource' = Nil)]_vars
    /\ [](selectedResource # Nil => state = "ShowingResourceDetail")

\* The diff view is shown again while an entry is still selected.
C12_Witness ==
    /\ state = "ShowingDiff"
    /\ selectedResource # Nil
    /\ running


\* C13: the back key moves BaselineCaptured to Ready with the baseline
\* discarded, ShowingDiff to BaselineCaptured with the current snapshot and the
\* DiffResult discarded and the baseline unchanged, and ShowingResourceDetail
\* to ShowingDiff with both snapshots and the DiffResult unchanged.
C13_BackDiscards ==
    [][/\ (KeyBack /\ state = "BaselineCaptured") => state' = "Ready"
       /\ (KeyBack /\ state = "ShowingDiff") => state' = "BaselineCaptured"
       /\ (KeyBack /\ state = "ShowingResourceDetail") => state' = "ShowingDiff"
       /\ (state = "BaselineCaptured" /\ state' = "Ready") =>
             /\ baseline' = Nil
             /\ current' = Nil /\ diffResult' = Nil
       /\ (state = "ShowingDiff" /\ state' = "BaselineCaptured") =>
             /\ current' = Nil /\ diffResult' = Nil
             /\ baseline' = baseline /\ baseline # Nil
       /\ (state = "ShowingResourceDetail" /\ state' = "ShowingDiff") =>
             /\ baseline' = baseline /\ current' = current
             /\ diffResult' = diffResult /\ diffResult # Nil]_vars

\* Back from a shown diff: the baseline is held, the current slot and the
\* DiffResult are empty again after two captures.
C13_Witness ==
    /\ state = "BaselineCaptured"
    /\ captures = 2
    /\ baseline # Nil /\ current = Nil /\ diffResult = Nil


\* The keys other than quit, force-quit and back.
OtherKey ==
    \/ KeyEscape \/ KeyCopyYAML \/ KeyHelp \/ KeyToggleView
    \/ (\E f \in FilterTypes : KeyFilter(f))
    \/ KeyCapture \/ KeyEnter \/ KeyUp \/ KeyDown \/ KeyPageUp \/ KeyPageDown

\* C14: Error is entered only from a capturing state by a failed completion;
\* in Error the retained error never changes and no capture is dispatched;
\* quit ends the loop, every key other than quit and back has no effect, and
\* back steps out of Error.
C14_ErrorQuitOrBack ==
    /\ [][/\ (state' = "Error" /\ state # "Error") =>
                /\ Capturing
                /\ \E type \in CaptureTypes : \E msg \in Delivered(type) :
                      msg.err # Nil /\ error' = msg.err
          /\ state = "Error" =>
                /\ error' = error
                /\ captures' = captures
                /\ Outstanding(pending') = 0
          /\ (state = "Error" /\ (KeyQuit \/ KeyForceQuit)) => ~running'
          /\ (state = "Error" /\ OtherKey) => UNCHANGED vars]_vars
    /\ [](state = "Error" /\ running => ENABLED (KeyBack /\ state' # "Error"))

\* The same without the back key: what holds of Error in the code.
C14_ErrorQuitOnly ==
    [][/\ (state' = "Error" /\ state # "Error") =>
             /\ Capturing
             /\ \E type \in CaptureTypes : \E msg \in Delivered(type) :
                   msg.err # Nil /\ error' = msg.err
       /\ state = "Error" =>
             /\ error' = error
             /\ captures' = captures
             /\ Outstanding(pending') = 0
             /\ state' = "Error"
       /\ (state = "Error" /\ (KeyQuit \/ KeyForceQuit)) => ~running'
       /\ (state = "Error" /\ OtherKey) => UNCHANGED vars]_vars

\* A failed current capture: Error with the error retained, the loop running.
C14_Witness ==
    /\ state = "Error"
    /\ running
    /\ error \in CaptureErrors
    /\ captures = 2


\* C15: while a capture is running, the q, back, capture/continue, enter,
\* filter and format-toggle keys leave the state, both snapshots and the
\* DiffResult unchanged and do not end the loop; the state leaves a capturing
\* state only when the capture's completion is processed.
C15_NoCancellation ==
    [][/\ (/\ Capturing
           /\ \/ KeyQuit \/ KeyBack \/ KeyCapture \/ KeyEnter \/ KeyToggleView
              \/ (\E f \in FilterTypes : KeyFilter(f))) =>
             /\ UNCHANGED <<state, baseline, current, diffResult>>
             /\ running' = running
             /\ Outstanding(pending') = Outstanding(pending)
       /\ (Capturing /\ state' # state) =>
             \E type \in CaptureTypes : Delivered(type) # {}
       /\ (Capturing /\ KeyForceQuit) => (~running' /\ state' = state)]_vars

\* The baseline capture is running and the loop has not ended.
C15_Witness ==
    /\ state = "CapturingBaseline"
    /\ running
    /\ captures = 1
    /\ Outstanding(pending) = 1


QuitStates == { "Ready", "BaselineCaptured", "ShowingDiff", "Error" }

\* C16: the q key ends the loop in Ready, BaselineCaptured, ShowingDiff and
\* Error; in ShowingResourceDetail q returns to ShowingDiff and the force-quit
\* key ends the loop; the force-quit key ends the loop in every state.
C16_QuitEverywhere ==
    /\ [][/\ (KeyQuit /\ state \in QuitStates) => (~running' /\ state' = state)
          /\ (KeyQuit /\ state = "ShowingResourceDetail") =>
                (running' /\ state' = "ShowingDiff")
          /\ KeyForceQuit => ~running']_vars
    /\ [](running =>
            /\ ENABLED (KeyForceQuit /\ ~running')
            /\ state \in QuitStates => ENABLED (KeyQuit /\ ~running')
            /\ state = "ShowingResourceDetail" => ~ENABLED (KeyQuit /\ ~running'))

\* The loop was ended from the detail view, where q is the local return.
C16_Witness ==
    /\ ~running
    /\ state = "ShowingResourceDetail"
    /\ selectedResource # Nil


\* C17: in every reachable state the DiffResult is absent or is
\* Compare(baseline, current) of the two snapshots held in that state; it is
\* absent whenever the current slot is empty, and a step that replaces or
\* clears a slot leaves no DiffResult of the old pair behind.
C17_DiffResultFresh ==
    /\ [](/\ current = Nil => diffResult = Nil
          /\ diffResult # Nil =>
                /\ baseline # Nil /\ current # Nil
                /\ \E curOrd \in MapOrders(current), baseOrd \in MapOrders(baseline) :
                      diffResult = Compare(baseline, current, curOrd, baseOrd))
    /\ [][(baseline' # baseline \/ current' # current) =>
             \/ diffResult' = Nil
             \/ /\ state = "CapturingCurrent" /\ state' = "ShowingDiff"
                /\ \E curOrd \in MapOrders(current'), baseOrd \in MapOrders(baseline') :
                      diffResult' = Compare(baseline', current', curOrd, baseOrd)]_vars

\* A DiffResult with an Added entry is held while its detail is open.
C17_Witness ==
    /\ state = "ShowingResourceDetail"
    /\ diffResult # Nil
    /\ Len(diffResult.Added) > 0
    /\ selectedResource # Nil


(***************************************************************************)
(* Claims about the views of ShowingDiff (checked under Spec).             *)
(***************************************************************************)
\* The messages of a type that this step puts in flight.
Dispatched(type) ==
    { m \in BagToSet(pending') :
        m.type = type /\ CopiesIn(m, pending') > CopiesIn(m, pending) }

\* The entries of a DiffResult that a filter selects, in display order.
EntriesOfKind(d, f) ==
    CASE f = "all"      -> d.Added \o d.Removed \o d.Modified
      [] f = "added"    -> d.Added
      [] f = "removed"  -> d.Removed
      [] f = "modified" -> d.Modified

\* rows shows the entries, one row per entry, in their order.
RowsShow(rows, entries) ==
    /\ Len(rows) = Len(entries)
    /\ \A i \in 1..Len(entries) :
          /\ Len(rows[i]) = 6
          /\ rows[i][1] = entries[i].Type
          /\ rows[i][2] = entries[i].Resource.GroupVersionKind
          /\ rows[i][3] = entries[i].Resource.Namespace
          /\ rows[i][4] = entries[i].Resource.Name

\* C18: a filter key has an effect only in ShowingDiff; it changes neither
\* the state nor the snapshots nor the DiffResult; the table update it
\* dispatches carries exactly the rows of the DiffResult's entries of the
\* selected kind (for "all": Added, then Removed, then Modified), one row per
\* entry, and applying a table update makes its rows the table's rows.
C18_FilterProjects ==
    [][/\ \A f \in FilterTypes :
             /\ (KeyFilter(f) /\ state # "ShowingDiff") => UNCHANGED vars
             /\ KeyFilter(f) =>
                   /\ UNCHANGED <<state, baseline, current, diffResult>>
                   /\ resourceFilter' = f
                   /\ \E msg \in Dispatched("tableUpdatedMsg") :
                         /\ RowsShow(msg.rows, EntriesOfKind(diffResult, f))
                         /\ Dispatched("tableUpdatedMsg") = { msg }
                         /\ CopiesIn(msg, pending') = CopiesIn(msg, pending) + 1
       /\ \A msg \in Delivered("tableUpdatedMsg") :
             /\ tableRows' = msg.rows
             /\ UNCHANGED <<state, baseline, current, diffResult, resourceFilter>>]_vars

\* The table shows the Added entries only, of a DiffResult that has others.
C18_Witness ==
    /\ state = "ShowingDiff"
    /\ resourceFilter = "added"
    /\ diffResult # Nil
    /\ tableRows # <<>>
    /\ RowsShow(tableRows, diffResult.Added)
    /\ Len(diffResult.Modified) > 0


\* The format after f in the cycle table, yaml, json.
Cycle(f) ==
    CASE f = "table" -> "yaml"
      [] f = "yaml"  -> "json"
      [] f = "json"  -> "table"

\* C19: the format toggle has an effect only in ShowingDiff, moves the
\* output format one step along table -> yaml -> json -> table (so three
\* toggles restore it), and leaves the state, both snapshots, the DiffResult
\* and the filter unchanged.
C19_ToggleCycles ==
    /\ [](/\ outputFormat \in { "table", "yaml", "json" }
          /\ NextFormat(outputFormat) = Cycle(outputFormat)
          /\ NextFormat(NextFormat(NextFormat(outputFormat))) = outputFormat
          /\ NextFormat(outputFormat) # outputFormat
          /\ NextFormat(NextFormat(outputFormat)) # outputFormat)
    /\ [][/\ (KeyToggleView /\ state # "ShowingDiff") => UNCHANGED vars
          /\ KeyToggleView =>
                /\ outputFormat' = Cycle(outputFormat)
                /\ UNCHANGED <<state, baseline, current, diffResult, resourceFilter>>
          /\ outputFormat' # outputFormat => (state = "ShowingDiff" /\ KeyToggleView)]_vars

\* Two toggles from the table view: the json view of a diff.
C19_Witness ==
    /\ state = "ShowingDiff"
    /\ outputFormat = "json"
    /\ viewKeys = 2
    /\ diffResult # Nil


\* The row the table's cursor is on (the empty row when it is on none).
Highlighted ==
    IF tableCursor >= 0 /\ tableCursor < Len(tableRows)
    THEN tableRows[tableCursor + 1] ELSE <<>>

\* The entries of a DiffResult with the kind and identity a row shows.
EntriesMatching(d, row) ==
    IF d = Nil \/ Len(row) < 6 THEN {}
    ELSE { e \in { (d.Added \o d.Removed \o d.Modified)[i] :
                     i \in 1..(Len(d.Added) + Len(d.Removed) + Len(d.Modified)) } :
             /\ e.Type = row[1]
             /\ e.Resource.GroupVersionKind = row[2]
             /\ e.Resource.Namespace = row[3]
             /\ e.Resource.Name = row[4] }

\* The enter key opens a detail.
Opens == KeyEnter /\ (state' # state \/ selectedResource' # selectedResource)

\* C20: the enter key in the table view of ShowingDiff, on a highlighted
\* row, moves to ShowingResourceDetail with the selection being the entry of
\* the current DiffResult that has the row's kind, groupVersionKind, namespace
\* and name; when no row is highlighted or no entry of the current DiffResult
\* matches the row, enter changes neither the state nor the selection.
C20_EnterSelects ==
    /\ [][KeyEnter =>
             /\ state = "ShowingDiff" /\ outputFormat = "table"
             /\ Highlighted # <<>>
             /\ state' = "ShowingResourceDetail"
             /\ selectedResource' \in EntriesMatching(diffResult, Highlighted)
             /\ diffResult' = diffResult]_vars
    /\ [](/\ (/\ state = "ShowingDiff" /\ running
              /\ (Highlighted = <<>> \/ EntriesMatching(diffResult, Highlighted) = {}))
             => ~ENABLED Opens
          /\ (/\ state = "ShowingDiff" /\ running /\ outputFormat = "table"
              /\ EntriesMatching(diffResult, Highlighted) # {}
              /\ HasRoom /\ viewKeys < MaxViewKeys)
             => ENABLED Opens)

\* The detail of a Removed entry was opened from its row.
C20_Witness ==
    /\ state = "ShowingResourceDetail"
    /\ selectedResource # Nil
    /\ selectedResource.Type = Removed
    /\ selectedResource \in EntriesMatching(diffResult, Highlighted)


(***************************************************************************)
(* Claims about the detail view (checked under Spec).                      *)
(***************************************************************************)
\* The detail text shows what an entry of this kind is to show.
DetailShows(output, sel) ==
    /\ output.kind = "detail"
    /\ CASE sel.Type = Modified ->
              /\ sel.BaselineResource # Nil /\ sel.CurrentResource # Nil
              /\ output.body = [ old |-> sel.BaselineResource.Manifest,
                                 new |-> sel.CurrentResource.Manifest ]
         [] sel.Type = Added ->
              /\ sel.CurrentResource # Nil /\ sel.BaselineResource = Nil
              /\ output.body = [ manifest |-> sel.CurrentResource.Manifest ]
         [] sel.Type = Removed ->
              /\ sel.BaselineResource # Nil /\ sel.CurrentResource = Nil
              /\ output.body = [ manifest |-> sel.BaselineResource.Manifest ]
         [] OTHER -> FALSE

\* C21: the detail text loaded for an opened entry is chosen by the entry's
\* kind: for a Modified entry the comparison of the baseline record's manifest
\* with the current record's manifest, for an Added entry the current manifest
\* alone, for a Removed entry the baseline manifest alone; the record a kind
\* does not carry is absent and is not read.
C21_DetailByKind ==
    [][/\ KeyEnter =>
             \E msg \in Dispatched("resourceDetailLoadedMsg") :
                /\ Dispatched("resourceDetailLoadedMsg") = { msg }
                /\ DetailShows(msg.output, selectedResource')
       /\ \A msg \in Delivered("resourceDetailLoadedMsg") :
             viewportContent' = msg.output]_vars

\* The detail of a Modified entry is on screen: the two manifests compared.
C21_Witness ==
    /\ state = "ShowingResourceDetail"
    /\ selectedResource # Nil
    /\ selectedResource.Type = Modified
    /\ viewportContent.kind = "detail"
    /\ DetailShows(viewportContent, selectedResource)
    /\ viewportContent.body.old # viewportContent.body.new


\* C22: every copy that sets a status notification schedules one clearing
\* event; a notification on screen always has a clearing event in flight and
\* is eventually cleared with no further input (or the loop has ended); and
\* while a notification is shown the keys of the detail view and the pending
\* messages are still processed.
C22_NotificationExpires ==
    /\ [][/\ KeyCopyYAML =>
                /\ statusMessage' # ""
                /\ \E msg \in Dispatched("clearStatusMessageMsg") :
                      CopiesIn(msg, pending') = CopiesIn(msg, pending) + 1
          /\ statusMessage' # statusMessage =>
                \/ KeyCopyYAML
                \/ (statusMessage' = "" /\ Delivered("clearStatusMessageMsg") # {})]_vars
    /\ [](statusMessage # "" =>
            /\ InFlight("clearStatusMessageMsg") # {}
            /\ running => /\ ENABLED ClearStatusMessageMsg
                          /\ ENABLED KeyForceQuit
                          /\ state = "ShowingResourceDetail" =>
                                /\ ENABLED (KeyBack /\ state' = "ShowingDiff")
                                /\ ENABLED (KeyEscape /\ state' = "ShowingDiff")
                                /\ ENABLED (KeyQuit /\ state' = "ShowingDiff")
                          /\ InFlight("resourceDetailLoadedMsg") # {} =>
                                ENABLED ResourceDetailLoadedMsg
                          /\ InFlight("tableUpdatedMsg") # {} => ENABLED TableUpdatedMsg
                          /\ InFlight("diffOutputUpdatedMsg") # {} =>
                                ENABLED DiffOutputUpdatedMsg)
    /\ (statusMessage # "" ~> (statusMessage = "" \/ ~running))

\* A notification was shown and has been cleared by its timer.
C22_Witness ==
    /\ state = "ShowingResourceDetail"
    /\ running
    /\ statusMessage = "YAML copied to clipboard"
    /\ BagCardinality([ m \in InFlight("clearStatusMessageMsg") |-> pending[m] ]) = 1


(***************************************************************************)
(* Claims about the process exit code (checked under Spec).                *)
(***************************************************************************)

\* C23: when the session has ended, the exit code is 0 if the diff produced
\* is empty, 2 if it is non-empty, and at least 3 if a capture failed before
\* a diff could be produced.
C23_ExitCodeReflectsDiff ==
    ~running =>
        /\ (diffResult # Nil /\ IsEmpty(diffResult)) => ExitCode = 0
        /\ (diffResult # Nil /\ ~IsEmpty(diffResult)) => ExitCode = 2
        /\ (diffResult = Nil /\ state = "Error") => ExitCode >= 3

\* A session ended with a non-empty diff on screen.
C23_Witness ==
    /\ ~running
    /\ state = "ShowingDiff"
    /\ diffResult # Nil
    /\ ~IsEmpty(diffResult)


(***************************************************************************)
(* Claims about the snapshot file (checked under SpecFile).                *)
(***************************************************************************)
\* The instant of a time.Time (what Time.Equal compares).
Instant(time) == <<time.date, time.clock, time.frac>>

\* C24: the snapshot loaded from the file that SaveToFile wrote has the
\* timestamp, the namespace and the resource keys of the saved one, and under
\* every key a record equal to the saved record in every field.
C24_RoundTrip ==
    (loaded # Nil /\ loaded.err = Nil) =>
        /\ Instant(loaded.snapshot.Timestamp) = Instant(fileSnapshot.Timestamp)
        /\ loaded.snapshot.Namespace = fileSnapshot.Namespace
        /\ Keys(loaded.snapshot) = Keys(fileSnapshot)
        /\ \A k \in Keys(fileSnapshot) :
              loaded.snapshot.Resources[k] = fileSnapshot.Resources[k]

\* A snapshot with a fractional timestamp and two records without manifest
\* has been written and read back.
C24_Witness ==
    /\ loaded # Nil
    /\ loaded.err = Nil
    /\ fileSnapshot.Timestamp.frac # ""
    /\ Cardinality(Keys(fileSnapshot)) = 2
    /\ \A k \in Keys(fileSnapshot) : fileSnapshot.Resources[k].Manifest = ""
    /\ FileName(fileSnapshot) \in DOMAIN tempDir


(***************************************************************************)
(* Claims about the filter (checked under SpecFilter).                     *)
(***************************************************************************)
\* The label matches at least one of the patterns that are regular expressions.
MatchesSome(patterns, label) ==
    \E i \in 1..Len(patterns) : IsRegexp(patterns[i]) /\ MatchString(patterns[i], label)

\* C25: on a compiled filter ShouldExclude(label) returns true exactly when
\* the label matches at least one exclude pattern and no include pattern.
C25_ExcludeUnlessIncluded ==
    (Compiled /\ excluded # Nil) =>
        excluded.outcome =
            Returned(/\ MatchesSome(rf.filter.ExcludePatterns, excluded.label)
                     /\ ~MatchesSome(rf.filter.IncludePatterns, excluded.label))

\* The same with every include pattern a regular expression.
C25_WithRegexpIncludes ==
    (/\ Compiled /\ excluded # Nil
     /\ \A i \in 1..Len(rf.filter.IncludePatterns) : IsRegexp(rf.filter.IncludePatterns[i])) =>
        excluded.outcome =
            Returned(/\ MatchesSome(rf.filter.ExcludePatterns, excluded.label)
                     /\ ~MatchesSome(rf.filter.IncludePatterns, excluded.label))

\* ShouldExclude was asked about a label that an exclude pattern matches, on
\* a compiled filter one of whose include patterns is not a regular expression.
C25_Witness ==
    /\ Compiled /\ excluded # Nil
    /\ rf.filter.ExcludePatterns = << "^v1/Pod$" >>
    /\ rf.filter.IncludePatterns = << "(" >>
    /\ excluded.label = "v1/Pod"

\* C26: a filter compiled with no exclude pattern excludes nothing, whatever
\* its include patterns.
C26_NoExcludesNoExclusion ==
    (Compiled /\ excluded # Nil /\ Len(rf.filter.ExcludePatterns) = 0) =>
        excluded.outcome = Returned(FALSE)

\* A filter with include patterns only was compiled and asked.
C26_Witness ==
    /\ Compiled /\ excluded # Nil
    /\ Len(rf.filter.ExcludePatterns) = 0
    /\ Len(rf.filter.IncludePatterns) = 2
    /\ excluded.outcome = Returned(FALSE)


(***************************************************************************)
(* Claims about CaptureSnapshot (checked under SpecCapture).               *)
(***************************************************************************)
\* The positions in capCalls of the calls of one client function.
Calls(name) == { i \in DOMAIN capCalls : capCalls[i].call = name }

ListedOk == { i \in Calls("ListResources") : capCalls[i].err = Nil }
ListedFailed == { i \in Calls("ListResources") : capCalls[i].err # Nil }

\* The record listed by call i was listed again, under the same key, by a
\* later call of this capture.
ListedAgain(i, r) ==
    \E j \in ListedOk :
        j > i /\ \E q \in capCalls[j].resources : KeyOfResource(q) = KeyOfResource(r)

\* NewClient returned an error.
ClientFailed == \E i \in Calls("NewClient") : ~capCalls[i].ok

\* The discovery request failed outright / for some groups only.
TotalDiscoveryFailure ==
    \E i \in Calls("DiscoverResources") :
       capCalls[i].served.err # Nil /\ ~capCalls[i].served.err.groupDiscoveryFailed
PartialDiscoveryFailure ==
    \E i \in Calls("DiscoverResources") :
       capCalls[i].served.err # Nil /\ capCalls[i].served.err.groupDiscoveryFailed

\* CaptureSnapshot has returned.
CaptureReturned == capPc \in { "Return", "done" }

\* Update has received the completion of the capture.
CompletionDelivered == capPc = "done" /\ Outstanding(pending) = 0

\* C27: with an ignore pattern that is not a regular expression the capture
\* makes no discovery and no listing call and creates no snapshot; it returns
\* no snapshot and an error (the compile error once the client exists), and
\* the completion puts the state machine in Error, never in BaselineCaptured
\* or ShowingDiff.
C27_InvalidPatternFails ==
    ~IsRegexp(capIgnore) =>
        /\ Calls("DiscoverResources") = {} /\ Calls("ListResources") = {}
        /\ capSnapshot = Nil
        /\ CaptureReturned =>
              /\ capResult.snapshot = Nil
              /\ capResult.err # Nil
              /\ ~ClientFailed =>
                    /\ compileErr # Nil
                    /\ capResult.err = [ msg |-> "failed to compile resource filter" ]
        /\ CompletionDelivered => state = "Error" /\ error = capResult.err
        /\ state \notin { "BaselineCaptured", "ShowingDiff" }

\* The compile error of a current-state capture has reached the state machine.
C27_Witness ==
    /\ ~IsRegexp(capIgnore)
    /\ compileErr # Nil
    /\ CompletionDelivered
    /\ state = "Error"
    /\ baseline # Nil
    /\ current = Nil

\* C28: when discovery fails for some groups or some types fail to list, and
\* nothing fatal happened, CaptureSnapshot returns a snapshot and no error;
\* the snapshot holds exactly the resources returned by the listings that
\* succeeded, each under its key with its own metadata (as listed last), and
\* no resource of a type that only failed to list.
C28_RecoverableFailures ==
    (/\ CaptureReturned
     /\ ~ClientFailed /\ compileErr = Nil /\ ~TotalDiscoveryFailure
     /\ (PartialDiscoveryFailure \/ ListedFailed # {})) =>
        /\ capResult.err = Nil
        /\ capResult.snapshot # Nil
        /\ Keys(capResult.snapshot) =
              UNION { { KeyOfResource(r) : r \in capCalls[i].resources } : i \in ListedOk }
        /\ \A i \in ListedOk : \A r \in capCalls[i].resources :
              LET info == capResult.snapshot.Resources[KeyOfResource(r)] IN
              ~ListedAgain(i, r) =>
              /\ info.GroupVersionKind = capCalls[i].resourceType
              /\ info.Namespace = r.Metadata.Namespace
              /\ info.Name = r.Metadata.Name
              /\ info.UID = r.Metadata.UID
              /\ info.ResourceVersion = r.Metadata.ResourceVersion
        /\ \A i \in ListedFailed : \A k \in Keys(capResult.snapshot) :
              \/ \E j \in ListedOk : capCalls[j].resourceType = capCalls[i].resourceType
              \/ capResult.snapshot.Resources[k].GroupVersionKind # capCalls[i].resourceType

\* apps/v1 could not be discovered and the Secrets could not be listed; the
\* baseline holds the ConfigMap that was listed before.
C28_Witness ==
    /\ CompletionDelivered
    /\ PartialDiscoveryFailure
    /\ \E i \in ListedFailed : capCalls[i].resourceType = "v1/Secret"
    /\ \E i \in ListedOk : capCalls[i].resourceType = "v1/ConfigMap"
    /\ state = "BaselineCaptured"
    /\ Keys(baseline) = { "v1/ConfigMap|myapp|cfg" }

\* C29: when the client cannot be constructed or discovery fails outright,
\* CaptureSnapshot returns an error and no snapshot and has listed nothing
\* (nor discovered anything without a client), and the completion puts the
\* state machine in Error.
C29_FatalFailures ==
    (ClientFailed \/ TotalDiscoveryFailure) =>
        /\ CaptureReturned
        /\ capResult.snapshot = Nil
        /\ capResult.err # Nil
        /\ capResult.err =
              IF ClientFailed THEN [ msg |-> "failed to create Kubernetes client" ]
              ELSE [ msg |-> "failed to discover API resources" ]
        /\ Calls("ListResources") = {}
        /\ ClientFailed => Calls("DiscoverResources") = {}
        /\ CompletionDelivered => state = "Error" /\ error = capResult.err
        /\ state \notin { "BaselineCaptured", "ShowingDiff" }

\* The outright failure of discovery has reached the state machine.
C29_Witness ==
    /\ TotalDiscoveryFailure
    /\ CompletionDelivered
    /\ state = "Error"
    /\ error = [ msg |-> "failed to discover API resources" ]

\* A listed resource whose spec cannot be marshalled for hashing.
Unhashable(r) == r.Spec # Nil /\ ~r.Spec.marshals

ListedResources ==
    UNION { { r \in capCalls[i].resources : ~ListedAgain(i, r) } : i \in ListedOk }

\* A listed resource whose spec json.Marshal accepts.
Hashable(r) == r.Spec # Nil /\ r.Spec.marshals

\* C31: in a returned snapshot, two resources with a spec have equal specHash
\* values exactly when the JSON of their specs is equal.
C31_HashIsContentDigest ==
    (CaptureReturned /\ capResult.err = Nil) =>
        \A r, q \in { x \in ListedResources : Hashable(x) } :
            (capResult.snapshot.Resources[KeyOfResource(r)].SpecHash =
             capResult.snapshot.Resources[KeyOfResource(q)].SpecHash)
                <=> (r.Spec.json = q.Spec.json)

\* Two Deployments with the same version token whose specs differ after the
\* twentieth byte have been captured.
C31_Witness ==
    /\ CompletionDelivered
    /\ state = "BaselineCaptured"
    /\ Keys(baseline) = { "apps/v1/Deployment|myapp|x", "apps/v1/Deployment|myapp|y" }
    /\ baseline.Resources["apps/v1/Deployment|myapp|x"].ResourceVersion =
          baseline.Resources["apps/v1/Deployment|myapp|y"].ResourceVersion
    /\ baseline.Resources["apps/v1/Deployment|myapp|x"].Manifest #
          baseline.Resources["apps/v1/Deployment|myapp|y"].Manifest


\* The exclude list of the capture's filter starts with the default noisy patterns.
NoisyApplied ==
    /\ Len(rf.filter.ExcludePatterns) >= Len(DefaultNoisyResources)
    /\ SubSeq(rf.filter.ExcludePatterns, 1, Len(DefaultNoisyResources)) = DefaultNoisyResources

\* C32: a returned snapshot holds no resource whose type the --ignore pattern
\* matches, and the capture's filter carries the default noisy patterns
\* exactly when --exclude-noisy is true.
C32_FilterFromFlags ==
    (CaptureReturned /\ capResult.err = Nil) =>
        /\ \A k \in Keys(capResult.snapshot) :
              (startFlags.ignore # "" /\ IsRegexp(startFlags.ignore)) =>
                  ~MatchString(startFlags.ignore,
                               capResult.snapshot.Resources[k].GroupVersionKind)
        /\ NoisyApplied <=> startFlags.excludeNoisy

\* With --ignore Deployment$ and the default --exclude-noisy a Deployment was captured.
C32_Witness ==
    /\ CompletionDelivered
    /\ startFlags = [ ignore |-> "Deployment$", excludeNoisy |-> TRUE ]
    /\ state = "BaselineCaptured"
    /\ "apps/v1/Deployment|myapp|x" \in Keys(baseline)


(***************************************************************************)
(* Claims about the structured outputs (checked under SpecCompare).        *)
(***************************************************************************)
\* The entries of the three arrays of a structured document, in order.
DocEntries(doc) == doc.added \o doc.removed \o doc.modified

\* Member names under which an encoding would carry the two record pointers.
ReferenceMembers ==
    { "baselineResource", "currentResource", "baselineresource", "currentresource",
      "BaselineResource", "CurrentResource" }

\* C33: the YAML document of a DiffResult has the three arrays of the JSON
\* document with as many entries; every member of a JSON entry (type,
\* resource, old/new version and hash) is a member of the YAML entry under
\* the same name, and no entry of either document carries the baseline or
\* current record.
C33_YAMLEquivalentToJSON ==
    CompareDone =>
        LET json == OutputJSON(cmpResult).doc
            yaml == OutputYAML(cmpResult).doc
        IN  /\ Len(yaml.added) = Len(json.added)
            /\ Len(yaml.removed) = Len(json.removed)
            /\ Len(yaml.modified) = Len(json.modified)
            /\ \A i \in 1..Len(DocEntries(json)) :
                  /\ DOMAIN DocEntries(json)[i] \subseteq DOMAIN DocEntries(yaml)[i]
                  /\ DOMAIN DocEntries(json)[i] \cap ReferenceMembers = {}
                  /\ DOMAIN DocEntries(yaml)[i] \cap ReferenceMembers = {}

\* A DiffResult with a Modified entry has been produced.
C33_Witness ==
    /\ CompareDone
    /\ Len(cmpResult.Modified) = 1
    /\ Len(cmpResult.Added) = 1
    /\ "oldResourceVersion" \in DOMAIN OutputJSON(cmpResult).doc.modified[1]

(***************************************************************************)
(* Claims about progress of the captures (checked under SpecCaptures).     *)
(***************************************************************************)

\* C34: when every dispatched capture delivers its completion, no capturing
\* state lasts forever unless the loop has been ended; the state leaves
\* CapturingBaseline only for BaselineCaptured or Error and CapturingCurrent
\* only for ShowingDiff or Error, by the delivery of the completion; and a
\* spinner tick processed meanwhile leaves the state as it is.
C34_CapturingEnds ==
    /\ []<>(state # "CapturingBaseline" \/ ~running)
    /\ []<>(state # "CapturingCurrent" \/ ~running)
    /\ [][/\ (Capturing /\ SpinnerTickMsg) => state' = state
          /\ (state = "CapturingBaseline" /\ state' # state) =>
                /\ Delivered("baselineCapturedMsg") # {}
                /\ state' \in { "BaselineCaptured", "Error" }
          /\ (state = "CapturingCurrent" /\ state' # state) =>
                /\ Delivered("currentStateCapturedMsg") # {}
                /\ state' \in { "ShowingDiff", "Error" }]_vars

\* The current capture is running, its completion is in flight and a spinner
\* tick is about to be processed.
C34_Witness ==
    /\ state = "CapturingCurrent"
    /\ running
    /\ InFlight("currentStateCapturedMsg") # {}
    /\ ENABLED SpinnerTickMsg

(***************************************************************************)
(* Claims about what View reads (checked under Spec).                      *)
(***************************************************************************)

\* The records an entry of a kind carries: the current record when Added,
\* the baseline record when Removed, both when Modified.
HasRequiredRecords(entry) ==
    /\ entry.Type \in { Added, Removed, Modified }
    /\ entry.Type \in { Added, Modified } => entry.CurrentResource # Nil
    /\ entry.Type \in { Removed, Modified } => entry.BaselineResource # Nil

\* C35: in every reachable state the values View dereferences are present:
\* the baseline in BaselineCaptured, CapturingCurrent, ShowingDiff and
\* ShowingResourceDetail; the current snapshot and the DiffResult in
\* ShowingDiff and ShowingResourceDetail; the selected entry, with the
\* records its kind requires, in ShowingResourceDetail.
C35_ViewValuesPresent ==
    /\ state \in { "BaselineCaptured", "CapturingCurrent", "ShowingDiff",
                   "ShowingResourceDetail" } => baseline # Nil
    /\ state \in { "ShowingDiff", "ShowingResourceDetail" } =>
          /\ current # Nil
          /\ diffResult # Nil
    /\ state = "ShowingResourceDetail" =>
          /\ selectedResource # Nil
          /\ HasRequiredRecords(selectedResource)

\* The detail of a Modified entry is open: View reads the selection, and the
\* entry carries both of its records.
C35_Witness ==
    /\ state = "ShowingResourceDetail"
    /\ selectedResource # Nil
    /\ selectedResource.Type = Modified
    /\ selectedResource.BaselineResource # Nil
    /\ baseline # Nil /\ current # Nil /\ diffResult # Nil

(***************************************************************************)
(* Claims about the asynchronous render results (checked under Spec).      *)
(***************************************************************************)

\* The messages that carry a render result or a table update.
ResultTypes == { "diffOutputUpdatedMsg", "tableUpdatedMsg" }

\* What the diff view displays is current: the structured text is the
\* rendering of the DiffResult in the selected format, the rows are the
\* entries the filter selects.
ViewIsCurrent ==
    /\ outputFormat \in { "yaml", "json" } =>
          viewportContent = updateDiffOutputCmd(outputFormat, diffResult)[1].output
    /\ outputFormat = "table" =>
          RowsShow(tableRows, EntriesOfKind(diffResult, resourceFilter))

\* C36: when the delivery of a render result or table update leaves none of
\* them in flight in ShowingDiff, the displayed structured text is the
\* rendering of the current DiffResult in the current output format and the
\* displayed rows are the projection of the current DiffResult by the current
\* filter, in whatever order the results were delivered.
C36_NoStaleView ==
    [][(/\ \E type \in ResultTypes : Delivered(type) # {}
        /\ state' = "ShowingDiff"
        /\ \A type \in ResultTypes : InFlight(type)' = {}) => ViewIsCurrent']_vars

\* Two render results of different formats are in flight in ShowingDiff.
C36_Witness ==
    /\ state = "ShowingDiff"
    /\ running
    /\ \E m1, m2 \in InFlight("diffOutputUpdatedMsg") : m1.output # m2.output

\* C37: a resize leaves the state, both snapshots, the DiffResult, the output
\* format and the filter unchanged and displays the same content as before:
\* rows that were the filter's projection of the DiffResult in the table view
\* of ShowingDiff still are, a detail text shown in ShowingResourceDetail is
\* still shown, and the rows the table held under an open detail are kept for
\* the return to ShowingDiff.
C37_ResizeKeepsContent ==
    [][WindowSizeMsg =>
          /\ UNCHANGED <<state, baseline, current, diffResult, outputFormat,
                         resourceFilter>>
          /\ (/\ state = "ShowingDiff" /\ outputFormat = "table"
              /\ diffResult # Nil
              /\ RowsShow(tableRows, EntriesOfKind(diffResult, resourceFilter))) =>
                RowsShow(tableRows', EntriesOfKind(diffResult, resourceFilter))
          /\ (/\ state = "ShowingResourceDetail"
              /\ selectedResource # Nil
              /\ viewportContent = DetailOutput(selectedResource)) =>
                /\ viewportContent' = DetailOutput(selectedResource)
                /\ tableRows' = tableRows]_vars

\* A detail is open with its text loaded, and a resize can be processed.
C37_Witness ==
    /\ state = "ShowingResourceDetail"
    /\ running
    /\ selectedResource # Nil
    /\ viewportContent = DetailOutput(selectedResource)
    /\ tableRows # <<>>
    /\ ENABLED WindowSizeMsg

(***************************************************************************)
(* Claims about the notification timers (checked under Spec).              *)
(***************************************************************************)

\* The number of expiry timers that have been scheduled and have not fired.
\* Every timer has the same delay, so they fire in the order they were
\* scheduled and the youngest is the one of the notification now shown.
TimersInFlight == CopiesIn(hideStatusMessageCmd[1], pending)

\* C38: the expiry scheduled for an earlier notification does not clear a
\* notification that was set later: when an expiry is processed while the
\* timer of the notification shown is still to fire, the notification stays.
C38_OwnDelay ==
    [][(/\ Delivered("clearStatusMessageMsg") # {}
        /\ statusMessage # ""
        /\ TimersInFlight >= 2
        /\ TimersInFlight' >= 1) => statusMessage' = statusMessage]_vars

\* A second notification was set while the timer of the first is in flight.
C38_Witness ==
    /\ statusMessage # ""
    /\ running
    /\ TimersInFlight = 2
    /\ ENABLED ClearStatusMessageMsg

(***************************************************************************)
(* Claims about the keys of a captured snapshot (under SpecCapture).       *)
(***************************************************************************)

\* The (groupVersionKind, namespace, name) of a listed resource.
IdentityOf(r) == << GVK(r), r.Metadata.Namespace, r.Metadata.Name >>

\* C39: in a snapshot a capture returned, every record is stored under the
\* key "<groupVersionKind>|<namespace>|<name>" of its own fields; listed
\* resources of different identities have different keys; an entry of the
\* DiffResult computed from the snapshot shows the identity of the key it was
\* found under; and when a key was listed twice in the capture, the capture
\* returns no error and the snapshot holds the record listed last.
C39_KeysFromOwnFields ==
    /\ (CaptureReturned /\ ~ClientFailed /\ compileErr = Nil /\ ~TotalDiscoveryFailure) =>
          /\ capResult.err = Nil
          /\ \A k \in Keys(capResult.snapshot) :
                LET info == capResult.snapshot.Resources[k] IN
                k = ResourceKey(info.GroupVersionKind, info.Namespace, info.Name)
          /\ \A i, j \in ListedOk :
                \A r \in capCalls[i].resources, q \in capCalls[j].resources :
                   /\ IdentityOf(r) # IdentityOf(q) => KeyOfResource(r) # KeyOfResource(q)
                   /\ (i < j /\ KeyOfResource(r) = KeyOfResource(q) /\ ~ListedAgain(j, q)) =>
                         capResult.snapshot.Resources[KeyOfResource(r)] = ResourceInfoOf(q)
    /\ (CompletionDelivered /\ state = "ShowingDiff" /\ diffResult # Nil) =>
          \A n \in 1..Len(AllEntries(diffResult)) :
             LET entry == AllEntries(diffResult)[n]
                 k == ResourceKey(entry.Resource.GroupVersionKind,
                                  entry.Resource.Namespace, entry.Resource.Name)
             IN  /\ k \in Keys(current)
                 /\ current.Resources[k] = entry.Resource

\* The Deployment x was listed twice in one capture, with version 1 and then
\* with version 2, and the diff of the returned snapshot is shown.
C39_Witness ==
    /\ CompletionDelivered
    /\ state = "ShowingDiff"
    /\ diffResult # Nil
    /\ Len(diffResult.Added) >= 1
    /\ \E i, j \in ListedOk :
          /\ i < j
          /\ \E r \in capCalls[i].resources, q \in capCalls[j].resources :
                /\ KeyOfResource(r) = KeyOfResource(q)
                /\ r.Metadata.ResourceVersion = "1"
                /\ q.Metadata.ResourceVersion = "2"

(***************************************************************************)
(* ui.Dialog.WaitForUserAction (SpecDialog).  A line is the sequence of    *)
(* its characters, as ReadString('\n') returns it: with its delimiter.     *)
(***************************************************************************)
UpperCase == << "A", "B", "C", "D", "E", "F", "G", "H", "I", "J", "K", "L", "M",
                "N", "O", "P", "Q", "R", "S", "T", "U", "V", "W", "X", "Y", "Z" >>
LowerCase == << "a", "b", "c", "d", "e", "f", "g", "h", "i", "j", "k", "l", "m",
                "n", "o", "p", "q", "r", "s", "t", "u", "v", "w", "x", "y", "z" >>

\* strings.ToLower(s)
ToLower(s) ==
    [ i \in 1..Len(s) |->
        IF \E n \in 1..Len(UpperCase) : UpperCase[n] = s[i]
        THEN LowerCase[CHOOSE n \in 1..Len(UpperCase) : UpperCase[n] = s[i]]
        ELSE s[i] ]

\* unicode.IsSpace for the characters a terminal line holds
IsSpace(c) == c \in { " ", "\t", "\n", "\r", "\f" }

\* strings.TrimSpace(s): s without its leading and trailing white space
RECURSIVE TrimSpace(_)
TrimSpace(s) ==
    IF s = <<>> THEN s
    ELSE IF IsSpace(Head(s)) THEN TrimSpace(Tail(s))
    ELSE IF IsSpace(s[Len(s)]) THEN TrimSpace(SubSeq(s, 1, Len(s) - 1))
    ELSE s

Continue == << "c", "o", "n", "t", "i", "n", "u", "e" >>
Exit == << "e", "x", "i", "t" >>
Quit == << "q", "u", "i", "t" >>

\* What the user may type: a line ends with its newline.
DialogLines ==
    { Continue \o << "\n" >>,
      << " ", "C", "o", "n", "t", "i", "n", "u", "e", " ", "\r", "\n" >>,
      Exit \o << "\n" >>,
      << "Q", "U", "I", "T", "\n" >>,
      << "\n" >>,
      << "y", "\n" >>,
      Continue \o << "d", "\n" >> }

\* d.reader.ReadString('\n'): a line, or an error together with what was read
\* before the input ended.
ReadString ==
    { [ input |-> l, err |-> Nil ] : l \in DialogLines }
    \cup { [ input |-> l, err |-> [ msg |-> "EOF" ] ] : l \in { <<>>, Continue } }

\* One pass of the for loop for what ReadString returned: whether the
\* function returns, with what, and whether the hint is printed.
OnRead(rd) ==
    IF rd.err # Nil
    THEN [ returns |-> TRUE, err |-> [ msg |-> "error reading input: " \o rd.err.msg ],
           hint |-> FALSE ]
    ELSE LET input == TrimSpace(rd.input) IN
         IF ToLower(input) = Continue
         THEN [ returns |-> TRUE, err |-> Nil, hint |-> FALSE ]
         ELSE IF ToLower(input) = Exit \/ ToLower(input) = Quit
         THEN [ returns |-> TRUE, err |-> [ msg |-> "diff process canceled by user" ],
                hint |-> FALSE ]
         ELSE [ returns |-> FALSE, err |-> Nil, hint |-> input # <<>> ]

\* WaitForUserAction has been called and has printed its first prompt.
InitDialog ==
    /\ TuiIdle
    /\ CompareIdle
    /\ FileIdle
    /\ FilterIdle
    /\ CaptureIdle
    /\ dlgPc = "reading"
    /\ dlgLines = <<>>
    /\ dlgResult = Nil
    /\ dlgHints = 0

\* input, err := d.reader.ReadString('\n') and the branches that follow
WaitForUserAction ==
    /\ dlgPc = "reading"
    /\ Len(dlgLines) < MaxLines
    /\ \E rd \in ReadString :
         LET pass == OnRead(rd) IN
         /\ dlgLines' = Append(dlgLines, rd)
         /\ dlgPc' = IF pass.returns THEN "returned" ELSE "reading"
         /\ dlgResult' = IF pass.returns THEN [ err |-> pass.err ] ELSE Nil
         /\ dlgHints' = IF pass.hint THEN dlgHints + 1 ELSE dlgHints
    /\ UNCHANGED <<tuiVars, cmpVars, fileVars, filterVars, captureVars>>

NextDialog == WaitForUserAction

SpecDialog == InitDialog /\ [][NextDialog]_vars

(***************************************************************************)
(* Claims about the line dialog (checked under SpecDialog).                *)
(***************************************************************************)

\* What a line says once trimmed and lower-cased.
Says(rd, word) == rd.err = Nil /\ ToLower(TrimSpace(rd.input)) = word

\* C40: WaitForUserAction returns success only after a line that says
\* "continue"; a line that says "exit" or "quit" ends the wait without an
\* error being returned; a read failure ends it with an error; after any
\* other line, an empty one included, it goes on reading.
C40_DialogOutcomes ==
    /\ dlgPc = "reading" =>
          \A i \in 1..Len(dlgLines) :
              /\ dlgLines[i].err = Nil
              /\ ~Says(dlgLines[i], Continue)
              /\ ~Says(dlgLines[i], Exit) /\ ~Says(dlgLines[i], Quit)
    /\ dlgPc = "returned" =>
          LET last == dlgLines[Len(dlgLines)] IN
          /\ \/ last.err # Nil
             \/ Says(last, Continue) \/ Says(last, Exit) \/ Says(last, Quit)
          /\ (dlgResult.err = Nil /\ ~Says(last, Exit) /\ ~Says(last, Quit)) =>
                Says(last, Continue)
          /\ Says(last, Continue) => dlgResult.err = Nil
          /\ (Says(last, Exit) \/ Says(last, Quit)) => dlgResult.err = Nil
          /\ last.err # Nil => dlgResult.err # Nil

\* The wait has ended on "QUIT" after an empty line and another line.
C40_Witness ==
    /\ dlgPc = "returned"
    /\ Len(dlgLines) = 3
    /\ dlgLines[1].input = << "\n" >>
    /\ dlgHints = 1
    /\ Says(dlgLines[3], Quit)
    /\ dlgLines[3].input # Quit \o << "\n" >>

====
